---- MODULE Spec2Model ----
(***************************************************************************)
(* Model of the technical-indicator scripts (skills/technical-indicators/  *)
(* scripts).  Every indicator is a pure function of a caller-supplied      *)
(* series; a behaviour is: the caller holds an input, one indicator is     *)
(* called on it, the result (a value record or an error) is returned.      *)
(*                                                                         *)
(* Numbers.  The scripts compute in IEEE doubles (python floats, numpy     *)
(* float64).  A number is modelled as an extended rational [n, d]:         *)
(*   d > 0  the finite value n/d, in lowest terms;                         *)
(*   d = 0  n = 0 is NaN, n = 1 is +inf, n = -1 is -inf.                   *)
(* Arithmetic on the finite values is exact (but for the exponentially     *)
(* weighted mean of a long series, see Grid), so the sub-ulp rounding of    *)
(* doubles and the sign of zero are not modelled; NaN and the infinities   *)
(* follow IEEE 754 (numpy/pandas do not raise on a zero divisor, plain     *)
(* python division does).                                                  *)
(***************************************************************************)
EXTENDS Integers, Sequences, FiniteSets, TLC

VARIABLES
    kind,         \* which family of input the caller holds
    prices,       \* the caller's list of close prices
    candles,      \* the caller's list of candle dicts
    prev_ohlc,    \* the previous-period candle given to the pivot script
    quote,        \* spot and option prices given to the expected-move script
    call,         \* the call made: [fn |-> name, args |-> its parameters]
    result,       \* what the call returned or raised
    kept          \* a call the caller remembers, with its result

vars == <<kind, prices, candles, prev_ohlc, quote, call, result, kept>>

----------------------------------------------------------------------------
(* Extended rationals *)

Abs(i) == IF i < 0 THEN -i ELSE i

Sign(i) == IF i < 0 THEN -1 ELSE IF i > 0 THEN 1 ELSE 0

RECURSIVE GCD(_, _)
GCD(a, b) == IF b = 0 THEN a ELSE GCD(b, a % b)

NaN == [n |-> 0, d |-> 0]
PosInf == [n |-> 1, d |-> 0]
NegInf == [n |-> -1, d |-> 0]

\* n/d in lowest terms with a positive denominator (d # 0)
Q(n, d) ==
    LET g == GCD(Abs(n), Abs(d))
        s == IF d < 0 THEN -1 ELSE 1
    IN  [n |-> s * (n \div g), d |-> s * (d \div g)]

I(i) == [n |-> i, d |-> 1]

IsNaN(x) == x.d = 0 /\ x.n = 0
IsFinite(x) == x.d > 0
IsInf(x) == x.d = 0 /\ x.n # 0

Neg(x) == [n |-> -x.n, d |-> x.d]

FAbs(x) == [n |-> Abs(x.n), d |-> x.d]

Add(x, y) ==
    IF IsNaN(x) \/ IsNaN(y) THEN NaN
    ELSE IF IsInf(x) /\ IsInf(y) THEN (IF x.n = y.n THEN x ELSE NaN)
    ELSE IF IsInf(x) THEN x
    ELSE IF IsInf(y) THEN y
    ELSE LET g == GCD(x.d, y.d)
             l == (x.d \div g) * y.d
         IN  Q(x.n * (l \div x.d) + y.n * (l \div y.d), l)

Sub(x, y) == Add(x, Neg(y))

Mul(x, y) ==
    IF IsNaN(x) \/ IsNaN(y) THEN NaN
    ELSE IF IsInf(x) \/ IsInf(y)
         THEN (IF x.n = 0 \/ y.n = 0 THEN NaN
               ELSE [n |-> Sign(x.n) * Sign(y.n), d |-> 0])
    ELSE LET g1 == GCD(Abs(x.n), y.d)
             g2 == GCD(Abs(y.n), x.d)
         IN  Q((x.n \div g1) * (y.n \div g2), (x.d \div g2) * (y.d \div g1))

\* IEEE division: x/0 is +-inf, 0/0 and inf/inf are NaN (numpy, pandas)
Div(x, y) ==
    IF IsNaN(x) \/ IsNaN(y) THEN NaN
    ELSE IF IsInf(x) THEN (IF IsInf(y) THEN NaN
                           ELSE [n |-> x.n * (IF y.n < 0 THEN -1 ELSE 1), d |-> 0])
    ELSE IF IsInf(y) THEN I(0)
    ELSE IF y.n = 0 THEN [n |-> Sign(x.n), d |-> 0]
    ELSE Mul(x, Q(y.d, y.n))

\* Comparisons: every comparison with NaN is false, except #
Lt(x, y) ==
    /\ ~IsNaN(x) /\ ~IsNaN(y)
    /\ IF IsInf(x) \/ IsInf(y)
       THEN (IF IsInf(x) /\ IsInf(y) THEN x.n < y.n
             ELSE IF IsInf(x) THEN x.n < 0 ELSE y.n > 0)
       ELSE Sub(x, y).n < 0

Gt(x, y) == Lt(y, x)

Eq(x, y) == ~IsNaN(x) /\ ~IsNaN(y) /\ x = y

Le(x, y) == Lt(x, y) \/ Eq(x, y)

Ge(x, y) == Le(y, x)

Ne(x, y) == ~Eq(x, y)

RECURSIVE Pow10(_)
Pow10(k) == IF k = 0 THEN 1 ELSE 10 * Pow10(k - 1)

\* round(x, k): to k decimals, ties to even; NaN and the infinities unchanged
Round(x, k) ==
    IF ~IsFinite(x) THEN x
    ELSE LET p == Pow10(k)
             whole == x.n \div x.d
             part == (x.n % x.d) * p
             f == whole * p + (part \div x.d)
             r == part % x.d
             up == \/ 2 * r > x.d
                   \/ (2 * r = x.d /\ f % 2 # 0)
         IN  Q(IF up THEN f + 1 ELSE f, p)

----------------------------------------------------------------------------
(* Square root.  Exact when the radicand has a rational root; otherwise    *)
(* truncated to a multiple of 1/SqrtScale, as a double is truncated to its *)
(* precision.                                                              *)

SqrtScale == 100

RECURSIVE ISqrtIter(_, _, _)
ISqrtIter(m, lo, hi) ==
    IF lo >= hi THEN lo
    ELSE LET mid == (lo + hi + 1) \div 2
         IN  IF mid * mid <= m THEN ISqrtIter(m, mid, hi)
             ELSE ISqrtIter(m, lo, mid - 1)

\* floor of the square root of a natural number
ISqrt(m) == ISqrtIter(m, 0, IF m < 46340 THEN m ELSE 46340)

IsSquare(m) == ISqrt(m) * ISqrt(m) = m

Sqrt(x) ==
    IF IsNaN(x) THEN NaN
    ELSE IF IsInf(x) THEN (IF x.n > 0 THEN PosInf ELSE NaN)
    ELSE IF x.n < 0 THEN NaN
    ELSE IF IsSquare(x.n) /\ IsSquare(x.d) THEN Q(ISqrt(x.n), ISqrt(x.d))
    ELSE Q(ISqrt((x.n * SqrtScale * SqrtScale) \div x.d), SqrtScale)

----------------------------------------------------------------------------
(* pandas Series primitives.  A series is a sequence of numbers, 1-based   *)
(* here (index i of the model is position i-1 of the script).              *)

Last(s) == s[Len(s)]

\* pd.Series(prices) of python numbers
ToSeries(xs) == [i \in 1..Len(xs) |-> I(xs[i])]

RECURSIVE SumRange(_, _, _)
SumRange(s, lo, hi) == IF lo > hi THEN I(0) ELSE Add(s[lo], SumRange(s, lo + 1, hi))

\* Series.shift(1)
Shift(s) == [i \in 1..Len(s) |-> IF i = 1 THEN NaN ELSE s[i - 1]]

\* Series.diff()
Diff(s) == [i \in 1..Len(s) |-> IF i = 1 THEN NaN ELSE Sub(s[i], s[i - 1])]

\* a rolling window is valid when it is full and holds only finite values
\* (min_periods = window; pandas turns +-inf into NaN before aggregating)
WindowOk(s, w, i) == i >= w /\ \A j \in (i - w + 1)..i : IsFinite(s[j])

\* Series.rolling(window=w).mean()
RollingMean(s, w) ==
    [i \in 1..Len(s) |->
        IF WindowOk(s, w, i) THEN Div(SumRange(s, i - w + 1, i), I(w)) ELSE NaN]

\* Series.rolling(window=w).sum()
RollingSum(s, w) ==
    [i \in 1..Len(s) |-> IF WindowOk(s, w, i) THEN SumRange(s, i - w + 1, i) ELSE NaN]

\* Series.rolling(window=w).std(): sample standard deviation (ddof = 1)
RollingStd(s, w) ==
    [i \in 1..Len(s) |->
        IF WindowOk(s, w, i) /\ w > 1
        THEN LET m == Div(SumRange(s, i - w + 1, i), I(w))
                 sq == [j \in 1..Len(s) |-> Mul(Sub(s[j], m), Sub(s[j], m))]
             IN  Sqrt(Div(SumRange(sq, i - w + 1, i), I(w - 1)))
        ELSE NaN]

RECURSIVE MinRange(_, _, _)
MinRange(s, lo, hi) ==
    IF lo = hi THEN s[lo]
    ELSE LET r == MinRange(s, lo + 1, hi) IN IF Lt(s[lo], r) THEN s[lo] ELSE r

RECURSIVE MaxRange(_, _, _)
MaxRange(s, lo, hi) ==
    IF lo = hi THEN s[lo]
    ELSE LET r == MaxRange(s, lo + 1, hi) IN IF Gt(s[lo], r) THEN s[lo] ELSE r

\* Series.rolling(window=w).min() / .max()
RollingMin(s, w) ==
    [i \in 1..Len(s) |-> IF WindowOk(s, w, i) THEN MinRange(s, i - w + 1, i) ELSE NaN]

RollingMax(s, w) ==
    [i \in 1..Len(s) |-> IF WindowOk(s, w, i) THEN MaxRange(s, i - w + 1, i) ELSE NaN]

\* Series.ewm(span=span, adjust=False).mean() on a series of finite values:
\* y_0 = x_0, y_t = (1 - alpha) * y_(t-1) + alpha * x_t, alpha = 2 / (span + 1)
\* a slip: pandas' default adjust=True, the weighted mean with the bias correction
RECURSIVE EwmWeights(_, _)
EwmWeights(span, k) ==
    IF k = 0 THEN I(1) ELSE Mul(Sub(I(1), Q(2, span + 1)), EwmWeights(span, k - 1))

EwmAtAdjusted(s, span, i) ==
    LET num == [j \in 1..i |-> Mul(EwmWeights(span, i - j), s[j])]
        den == [j \in 1..i |-> EwmWeights(span, i - j)]
    IN  Div(SumRange(num, 1, i), SumRange(den, 1, i))

\* pandas' default adjust=True over the whole series
EwmMeanAdjusted(s, span) == [i \in 1..Len(s) |-> EwmAtAdjusted(s, span, i)]

\* The denominators of the recursion grow geometrically with the index.  A
\* double keeps 53 bits; the model keeps the values of a series of at most
\* ExactLen points exactly and rounds those of a longer one, at every step,
\* to the nearest multiple of 1/Grid.
Grid == Pow10(6)

ExactLen == 8

\* the first k decimals of r/d (0 <= r < d) by long division, and the remainder
RECURSIVE Decimals(_, _, _, _)
Decimals(r, d, k, acc) ==
    IF k = 0 THEN [digits |-> acc, rest |-> r]
    ELSE Decimals((r * 10) % d, d, k - 1, acc * 10 + ((r * 10) \div d))

ToGrid(x) ==
    IF ~IsFinite(x) THEN x
    ELSE LET a == Abs(x.n)
             f == Decimals(a % x.d, x.d, 6, 0)
             m == (a \div x.d) * Grid + f.digits + (IF 2 * f.rest >= x.d THEN 1 ELSE 0)
         IN  Q(Sign(x.n) * m, Grid)

\* y_t from y_(t-1) and x_t
EwmStep(prev, x, span, exact) ==
    LET alpha == Q(2, span + 1)
        y == Add(Mul(Sub(I(1), alpha), prev), Mul(alpha, x))
    IN  IF exact THEN y ELSE ToGrid(y)

\* the recursion run over s, acc holding y_0..y_(t-1)
RECURSIVE EwmLoop(_, _, _)
EwmLoop(s, span, acc) ==
    IF Len(acc) >= Len(s) THEN acc
    ELSE EwmLoop(s, span,
                 Append(acc, EwmStep(acc[Len(acc)], s[Len(acc) + 1], span,
                                     Len(s) <= ExactLen)))

\* a slip: the recursion seeded with zero instead of the first value
EwmMeanZeroSeed(s, span) ==
    IF Len(s) = 0 THEN <<>> ELSE EwmLoop(s, span, <<Mul(Q(2, span + 1), s[1])>>)

EwmMean(s, span) == IF Len(s) = 0 THEN <<>> ELSE EwmLoop(s, span, <<s[1]>>)

\* elementwise arithmetic of two series of the same length
SeriesSub(a, b) == [i \in 1..Len(a) |-> Sub(a[i], b[i])]
SeriesAdd(a, b) == [i \in 1..Len(a) |-> Add(a[i], b[i])]
SeriesDiv(a, b) == [i \in 1..Len(a) |-> Div(a[i], b[i])]

----------------------------------------------------------------------------
(* Results.  A call returns [status |-> "ok", ...the script's dict...] or  *)
(* raises, which is the record [status |-> "error", ...].                  *)

NoFields == <<>>

\* raise ValueError(f"Need at least {required} prices|candles, got {got}")
LengthError(required, got) ==
    [status |-> "error", type |-> "ValueError", kind |-> "length",
     required |-> required, got |-> got, index |-> -1, fields |-> NoFields]

\* raise ValueError(f"Candle {i} missing fields: {', '.join(missing)}")
MissingError(index, fields) ==
    [status |-> "error", type |-> "ValueError", kind |-> "missing",
     required |-> -1, got |-> -1, index |-> index, fields |-> fields]

\* an exception that is not one of the script's own ValueErrors
Raised(type) ==
    [status |-> "error", type |-> type, kind |-> "runtime",
     required |-> -1, got |-> -1, index |-> -1, fields |-> NoFields]

----------------------------------------------------------------------------
(* sma.py *)

calculate_sma(ps, period) ==
    IF Len(ps) < period THEN LengthError(period, Len(ps))
    ELSE LET sma_value == Last(RollingMean(ToSeries(ps), period))
         IN  [status |-> "ok", sma |-> Round(sma_value, 2), period |-> period]

(* ema.py *)

\* a slip: the weight taken from the smoothing argument, smoothing / (period + 1)
RECURSIVE EwmLoopWeighted(_, _, _)
EwmLoopWeighted(s, alpha, acc) ==
    IF Len(acc) >= Len(s) THEN acc
    ELSE EwmLoopWeighted(s, alpha,
             Append(acc, Add(Mul(Sub(I(1), alpha), acc[Len(acc)]),
                             Mul(alpha, s[Len(acc) + 1]))))

EmaSmoothingUsed(ps, period, smoothing) ==
    IF Len(ps) < period THEN LengthError(period, Len(ps))
    ELSE LET ema_value == Last(EwmLoopWeighted(ToSeries(ps), Q(smoothing, period + 1),
                                               <<I(ps[1])>>))
             current_price == I(Last(ps))
             trend == IF Gt(current_price, ema_value) THEN "above_ema"
                      ELSE IF Lt(current_price, ema_value) THEN "below_ema"
                      ELSE "at_ema"
         IN  [status |-> "ok", ema |-> Round(ema_value, 2), period |-> period,
              current_price |-> Round(current_price, 2), price_trend |-> trend]

calculate_ema(ps, period, smoothing) ==
    IF Len(ps) < period THEN LengthError(period, Len(ps))
    ELSE LET ema_value == Last(EwmMean(ToSeries(ps), period))
             current_price == I(Last(ps))
             trend == IF Gt(current_price, ema_value) THEN "above_ema"
                      ELSE IF Lt(current_price, ema_value) THEN "below_ema"
                      ELSE "at_ema"
         IN  [status |-> "ok", ema |-> Round(ema_value, 2), period |-> period,
              current_price |-> Round(current_price, 2), price_trend |-> trend]

(* rsi.py *)

RSI_OVERBOUGHT == 70
RSI_OVERSOLD == 30

get_rsi_signal(rsi_value, overbought, oversold) ==
    IF Gt(rsi_value, I(overbought)) THEN "overbought"
    ELSE IF Lt(rsi_value, I(oversold)) THEN "oversold"
    ELSE "neutral"

\* a slip: a zero average loss guarded by setting the relative strength to zero
RsiSeriesGuarded(ps, period) ==
    LET delta == Diff(ToSeries(ps))
        gain == [i \in 1..Len(ps) |-> IF Gt(delta[i], I(0)) THEN delta[i] ELSE I(0)]
        loss == [i \in 1..Len(ps) |-> Neg(IF Lt(delta[i], I(0)) THEN delta[i] ELSE I(0))]
        avg_gain == RollingMean(gain, period)
        avg_loss == RollingMean(loss, period)
        rs == [i \in 1..Len(ps) |->
                  IF Eq(avg_loss[i], I(0)) THEN I(0) ELSE Div(avg_gain[i], avg_loss[i])]
    IN  [i \in 1..Len(ps) |-> Sub(I(100), Div(I(100), Add(I(1), rs[i])))]

\* the rsi_series of calculate_rsi: 100 - 100 / (1 + avg_gain / avg_loss)
RsiSeries(ps, period) ==
    LET delta == Diff(ToSeries(ps))
        gain == [i \in 1..Len(ps) |-> IF Gt(delta[i], I(0)) THEN delta[i] ELSE I(0)]
        loss == [i \in 1..Len(ps) |-> Neg(IF Lt(delta[i], I(0)) THEN delta[i] ELSE I(0))]
        avg_gain == RollingMean(gain, period)
        avg_loss == RollingMean(loss, period)
        rs == SeriesDiv(avg_gain, avg_loss)
    IN  [i \in 1..Len(ps) |-> Sub(I(100), Div(I(100), Add(I(1), rs[i])))]

calculate_rsi(ps, period, overbought, oversold) ==
    IF Len(ps) < period + 1 THEN LengthError(period + 1, Len(ps))
    ELSE LET rsi_value == Last(RsiSeries(ps, period))
         IN  [status |-> "ok", rsi |-> Round(rsi_value, 2), period |-> period,
              signal |-> get_rsi_signal(rsi_value, overbought, oversold)]

(* bollinger_bands.py *)

\* a slip: the guard on a zero bandwidth left out
PercentBUnguarded(current_price, lower_band, bandwidth) ==
    Div(Sub(current_price, lower_band), bandwidth)

\* %B (position within bands), with the guard on a zero bandwidth
PercentB(current_price, lower_band, bandwidth) ==
    IF Ne(bandwidth, I(0)) THEN Div(Sub(current_price, lower_band), bandwidth)
    ELSE Q(1, 2)

BollingerSignal(percent_b) ==
    IF Gt(percent_b, I(1)) THEN "overbought"
    ELSE IF Lt(percent_b, I(0)) THEN "oversold"
    ELSE IF Gt(percent_b, Q(8, 10)) THEN "near_upper"
    ELSE IF Lt(percent_b, Q(2, 10)) THEN "near_lower"
    ELSE "neutral"

MiddleBand(ps, period) == Last(RollingMean(ToSeries(ps), period))

UpperBand(ps, period, std_dev) ==
    Add(MiddleBand(ps, period), Mul(std_dev, Last(RollingStd(ToSeries(ps), period))))

LowerBand(ps, period, std_dev) ==
    Sub(MiddleBand(ps, period), Mul(std_dev, Last(RollingStd(ToSeries(ps), period))))

calculate_bollinger_bands(ps, period, std_dev) ==
    IF Len(ps) < period THEN LengthError(period, Len(ps))
    ELSE LET middle_band == MiddleBand(ps, period)
             upper_band == UpperBand(ps, period, std_dev)
             lower_band == LowerBand(ps, period, std_dev)
             current_price == I(Last(ps))
             bandwidth == Sub(upper_band, lower_band)
             percent_b == PercentB(current_price, lower_band, bandwidth)
         IN  [status |-> "ok",
              upper_band |-> Round(upper_band, 2),
              middle_band |-> Round(middle_band, 2),
              lower_band |-> Round(lower_band, 2),
              bandwidth |-> Round(bandwidth, 2),
              percent_b |-> Round(percent_b, 3),
              current_price |-> Round(current_price, 2),
              signal |-> BollingerSignal(percent_b),
              period |-> period, std_dev |-> std_dev]

(* macd.py *)

\* a slip: the slow average minus the fast one
MacdLineSwapped(ps, fast_period, slow_period) ==
    SeriesSub(EwmMean(ToSeries(ps), slow_period), EwmMean(ToSeries(ps), fast_period))

MacdLine(ps, fast_period, slow_period) ==
    SeriesSub(EwmMean(ToSeries(ps), fast_period), EwmMean(ToSeries(ps), slow_period))

SignalLine(ps, fast_period, slow_period, signal_period) ==
    EwmMean(MacdLine(ps, fast_period, slow_period), signal_period)

\* the if/elif chain of calculate_macd over the last two points
\* a slip: the histogram momentum tested before the crossovers
MacdSignalMomentumFirst(prev_macd, prev_signal, prev_histogram, macd_value, signal_value, histogram_value) ==
    IF Gt(histogram_value, I(0)) /\ Gt(histogram_value, prev_histogram) THEN "bullish_momentum"
    ELSE IF Lt(histogram_value, I(0)) /\ Lt(histogram_value, prev_histogram) THEN "bearish_momentum"
    ELSE IF Le(prev_macd, prev_signal) /\ Gt(macd_value, signal_value) THEN "bullish_crossover"
    ELSE IF Ge(prev_macd, prev_signal) /\ Lt(macd_value, signal_value) THEN "bearish_crossover"
    ELSE IF Gt(histogram_value, I(0)) THEN "bullish"
    ELSE IF Lt(histogram_value, I(0)) THEN "bearish"
    ELSE "neutral"

MacdSignal(prev_macd, prev_signal, prev_histogram, macd_value, signal_value, histogram_value) ==
    IF Le(prev_macd, prev_signal) /\ Gt(macd_value, signal_value) THEN "bullish_crossover"
    ELSE IF Ge(prev_macd, prev_signal) /\ Lt(macd_value, signal_value) THEN "bearish_crossover"
    ELSE IF Gt(histogram_value, I(0)) /\ Gt(histogram_value, prev_histogram) THEN "bullish_momentum"
    ELSE IF Lt(histogram_value, I(0)) /\ Lt(histogram_value, prev_histogram) THEN "bearish_momentum"
    ELSE IF Gt(histogram_value, I(0)) THEN "bullish"
    ELSE IF Lt(histogram_value, I(0)) THEN "bearish"
    ELSE "neutral"

\* a slip: the signal period left out of the minimum
MacdMinRequiredSlowOnly(slow_period, signal_period) == slow_period

\* min_required = slow_period + signal_period
MacdMinRequired(slow_period, signal_period) == slow_period + signal_period

calculate_macd(ps, fast_period, slow_period, signal_period) ==
    IF Len(ps) < MacdMinRequired(slow_period, signal_period)
    THEN LengthError(MacdMinRequired(slow_period, signal_period), Len(ps))
    ELSE LET macd_line == MacdLine(ps, fast_period, slow_period)
             signal_line == SignalLine(ps, fast_period, slow_period, signal_period)
             histogram == SeriesSub(macd_line, signal_line)
             n == Len(ps)
         IN  [status |-> "ok",
              macd |-> Round(macd_line[n], 3),
              signal |-> Round(signal_line[n], 3),
              histogram |-> Round(histogram[n], 3),
              crossover_signal |->
                  MacdSignal(macd_line[n - 1], signal_line[n - 1], histogram[n - 1],
                             macd_line[n], signal_line[n], histogram[n]),
              fast_period |-> fast_period, slow_period |-> slow_period,
              signal_period |-> signal_period]

(* historical_volatility.py, calculate_historical_volatility with the       *)
(* default method "close_to_close" (the "log_returns" method takes a       *)
(* logarithm, which this arithmetic does not have).                        *)

\* Series.dropna()
DropNa(s) == SelectSeq(s, LAMBDA x : ~IsNaN(x))

\* Series.pct_change()
PctChange(s) ==
    [i \in 1..Len(s) |-> IF i = 1 THEN NaN ELSE Sub(Div(s[i], s[i - 1]), I(1))]

\* rolling_std of calculate_historical_volatility
HvRollingStd(ps, period) == RollingStd(DropNa(PctChange(ToSeries(ps))), period)

\* (all_vols < daily_vol).sum() / len(all_vols) * 100, or 50 without history
PercentileRank(all_vols, daily_vol) ==
    IF Len(all_vols) > 0
    THEN Mul(Div(I(Cardinality({i \in 1..Len(all_vols) : Lt(all_vols[i], daily_vol)})),
                 I(Len(all_vols))), I(100))
    ELSE I(50)

VolRegime(annualized_vol_pct) ==
    IF Lt(annualized_vol_pct, I(10)) THEN "very_low"
    ELSE IF Lt(annualized_vol_pct, I(15)) THEN "low"
    ELSE IF Lt(annualized_vol_pct, I(20)) THEN "normal"
    ELSE IF Lt(annualized_vol_pct, I(30)) THEN "elevated"
    ELSE IF Lt(annualized_vol_pct, I(50)) THEN "high"
    ELSE "extreme"

calculate_historical_volatility(ps, period, annualize_factor) ==
    IF Len(ps) < period + 1 THEN LengthError(period + 1, Len(ps))
    ELSE LET rolling_std == HvRollingStd(ps, period)
         IN  IF Len(rolling_std) = 0 THEN Raised("IndexError")
             ELSE
             LET daily_vol == Last(rolling_std)
                 root == Sqrt(I(annualize_factor))
                 annualized_vol_pct == Mul(Mul(daily_vol, root), I(100))
                 all_vols == DropNa(rolling_std)
                 n == Len(all_vols)
                 scaled(v) == Mul(Mul(v, root), I(100))
             IN  [status |-> "ok",
                  daily_vol |-> Round(Mul(daily_vol, I(100)), 2),
                  weekly_vol |-> Round(Mul(Mul(daily_vol, Sqrt(I(5))), I(100)), 2),
                  monthly_vol |-> Round(Mul(Mul(daily_vol, Sqrt(I(21))), I(100)), 2),
                  annualized_vol |-> Round(annualized_vol_pct, 2),
                  percentile_rank |-> Round(PercentileRank(all_vols, daily_vol), 1),
                  regime |-> VolRegime(annualized_vol_pct),
                  min_vol |-> Round(IF n > 0 THEN scaled(MinRange(all_vols, 1, n)) ELSE I(0), 2),
                  max_vol |-> Round(IF n > 0 THEN scaled(MaxRange(all_vols, 1, n)) ELSE I(0), 2),
                  mean_vol |-> Round(IF n > 0 THEN scaled(Div(SumRange(all_vols, 1, n), I(n)))
                                     ELSE I(0), 2),
                  period |-> period, annualize_factor |-> annualize_factor]

----------------------------------------------------------------------------
(* Candles.  A candle is a record whose DOMAIN is the set of keys the      *)
(* caller supplied; its values are integers.                               *)

\* [f for f in required_fields if f not in candle]
Missing(candle, required_fields) ==
    SelectSeq(required_fields, LAMBDA f : f \notin DOMAIN candle)

\* the candles, by 0-based index, that lack a required field
Offending(cs, required_fields) ==
    {i \in 0..(Len(cs) - 1) : Len(Missing(cs[i + 1], required_fields)) > 0}

MinOf(S) == CHOOSE x \in S : \A y \in S : x <= y

\* a slip: the candles counted from one, as enumerate(candles, 1) would
FieldCheckOneBased(cs, required_fields) ==
    IF Offending(cs, required_fields) = {} THEN [status |-> "ok"]
    ELSE LET i == MinOf(Offending(cs, required_fields))
         IN  MissingError(i + 1, Missing(cs[i + 1], required_fields))

\* the for-loop over enumerate(candles): raises at the first offending candle
FieldCheck(cs, required_fields) ==
    IF Offending(cs, required_fields) = {} THEN [status |-> "ok"]
    ELSE LET i == MinOf(Offending(cs, required_fields))
         IN  MissingError(i, Missing(cs[i + 1], required_fields))

Column(cs, f) == [i \in 1..Len(cs) |-> I(cs[i][f])]

\* DataFrame.max(axis=1) over three columns: NaN entries are skipped
Max3(a, b, c) ==
    LET xs == DropNa(<<a, b, c>>)
    IN  IF Len(xs) = 0 THEN NaN ELSE MaxRange(xs, 1, Len(xs))

\* the "tr" column of atr.py and adx.py
TrueRange(cs) ==
    LET high == Column(cs, "high")
        low == Column(cs, "low")
        prev_close == Shift(Column(cs, "close"))
    IN  [i \in 1..Len(cs) |->
            Max3(Sub(high[i], low[i]),
                 FAbs(Sub(high[i], prev_close[i])),
                 FAbs(Sub(low[i], prev_close[i])))]

(* vwap.py *)

VWAP_FIELDS == <<"high", "low", "close", "volume">>

\* a slip: the midpoint of the range taken for the typical price
TypicalPriceMidpoint(cs) ==
    [i \in 1..Len(cs) |-> Div(I(cs[i].high + cs[i].low), I(2))]

TypicalPrice(cs) ==
    [i \in 1..Len(cs) |->
        Div(I(cs[i].high + cs[i].low + cs[i].close), I(3))]

VwapValue(cs) ==
    LET tp == TypicalPrice(cs)
        volume == Column(cs, "volume")
        pv == [i \in 1..Len(cs) |-> Mul(tp[i], volume[i])]
    IN  Div(SumRange(pv, 1, Len(cs)), SumRange(volume, 1, Len(cs)))

VwapSignal(deviation) ==
    IF Gt(deviation, I(2)) THEN "significantly_above"
    ELSE IF Gt(deviation, Q(1, 2)) THEN "above"
    ELSE IF Lt(deviation, I(-2)) THEN "significantly_below"
    ELSE IF Lt(deviation, Q(-1, 2)) THEN "below"
    ELSE "near_vwap"

calculate_vwap(cs) ==
    \* raise ValueError("Need at least 1 candle"): the count received is not stated
    IF Len(cs) < 1 THEN LengthError(1, -1)
    ELSE IF FieldCheck(cs, VWAP_FIELDS).status = "error" THEN FieldCheck(cs, VWAP_FIELDS)
    ELSE LET n == Len(cs)
             tp == TypicalPrice(cs)
             volume == Column(cs, "volume")
             vwap_value == VwapValue(cs)
             current_price == I(cs[n].close)
             deviation == Mul(Div(Sub(current_price, vwap_value), vwap_value), I(100))
             sqv == [i \in 1..n |->
                        Mul(Mul(Sub(tp[i], vwap_value), Sub(tp[i], vwap_value)), volume[i])]
             variance == Div(SumRange(sqv, 1, n), SumRange(volume, 1, n))
             std_dev == Sqrt(variance)
         IN  [status |-> "ok",
              vwap |-> Round(vwap_value, 2),
              current_price |-> Round(current_price, 2),
              deviation_pct |-> Round(deviation, 2),
              upper_band |-> Round(Add(vwap_value, std_dev), 2),
              lower_band |-> Round(Sub(vwap_value, std_dev), 2),
              signal |-> VwapSignal(deviation),
              total_volume |-> SumRange(volume, 1, n).n]

(* atr.py *)

ATR_FIELDS == <<"open", "high", "low", "close">>

\* tr_clean.tail(period).mean()
\* a slip: the mean taken over every row, the first candle's range included
AtrValueAllRows(cs, period) ==
    LET tr_clean == DropNa(TrueRange(cs))
        n == Len(tr_clean)
    IN  IF n = 0 THEN NaN ELSE Div(SumRange(tr_clean, 1, n), I(n))

AtrValue(cs, period) ==
    LET tr_clean == DropNa(TrueRange(cs))
        n == Len(tr_clean)
        lo == IF n - period + 1 < 1 THEN 1 ELSE n - period + 1
    IN  IF n = 0 THEN NaN ELSE Div(SumRange(tr_clean, lo, n), I(n - lo + 1))

calculate_atr(cs, period) ==
    IF Len(cs) < period + 1 THEN LengthError(period + 1, Len(cs))
    ELSE IF FieldCheck(cs, ATR_FIELDS).status = "error" THEN FieldCheck(cs, ATR_FIELDS)
    ELSE LET atr_value == AtrValue(cs, period)
         IN  [status |-> "ok",
              atr |-> Round(atr_value, 2),
              half_atr |-> Round(Mul(atr_value, Q(1, 2)), 2),
              double_atr |-> Round(Mul(atr_value, I(2)), 2),
              period |-> period]

(* adx.py *)

OHLC_FIELDS == <<"high", "low", "close">>

\* df["plus_dm"]: the up-move when it exceeds the down-move and is positive
PlusDM(cs) ==
    LET high == Column(cs, "high")
        low == Column(cs, "low")
        high_diff == SeriesSub(high, Shift(high))
        low_diff == SeriesSub(Shift(low), low)
    IN  [i \in 1..Len(cs) |->
            IF Gt(high_diff[i], low_diff[i]) /\ Gt(high_diff[i], I(0))
            THEN high_diff[i] ELSE I(0)]

\* df["minus_dm"]
MinusDM(cs) ==
    LET high == Column(cs, "high")
        low == Column(cs, "low")
        high_diff == SeriesSub(high, Shift(high))
        low_diff == SeriesSub(Shift(low), low)
    IN  [i \in 1..Len(cs) |->
            IF Gt(low_diff[i], high_diff[i]) /\ Gt(low_diff[i], I(0))
            THEN low_diff[i] ELSE I(0)]

\* The loop "for i in range(first, len(df))", skipping index skip, that overwrites
\* a rolling-mean column by Wilder's recurrence on the row before:
\*     df.loc[i, col] = (df.loc[i - 1, col] * (period - 1) + df.loc[i, raw]) / period
\* Position m of the model is index m - 1 of the script; acc holds the rows done.
RECURSIVE WilderLoop(_, _, _, _, _, _)
WilderLoop(raw, rolling, period, first, skip, acc) ==
    LET m == Len(acc) + 1
        i == m - 1
    IN  IF m > Len(raw) THEN acc
        ELSE IF i < first \/ i = skip
        THEN WilderLoop(raw, rolling, period, first, skip, Append(acc, rolling[m]))
        ELSE WilderLoop(raw, rolling, period, first, skip,
                 Append(acc, Div(Add(Mul(acc[m - 1], I(period - 1)), raw[m]), I(period))))

\* the smoothing of tr, plus_dm and minus_dm: the loop starts at index period and
\* skips i == period
WilderSmooth(raw, period) ==
    WilderLoop(raw, RollingMean(raw, period), period, period, period, <<>>)

\* the smoothing of dx into adx: the loop starts at index period * 2, skips nothing
AdxSmooth(dx, period) ==
    WilderLoop(dx, RollingMean(dx, period), period, period * 2, -1, <<>>)

\* 100 * smoothed / atr, row by row
DI(smoothed, atr) == [m \in 1..Len(atr) |-> Div(Mul(I(100), smoothed[m]), atr[m])]

\* df["dx"] = 100 * |plus_di - minus_di| / (plus_di + minus_di)
DX(plus_di, minus_di) ==
    [m \in 1..Len(plus_di) |->
        Div(Mul(I(100), FAbs(Sub(plus_di[m], minus_di[m]))),
            Add(plus_di[m], minus_di[m]))]

\* the columns of df that calculate_adx builds
AdxFrame(cs, period) ==
    LET tr == TrueRange(cs)
        plus_dm == PlusDM(cs)
        minus_dm == MinusDM(cs)
        atr == WilderSmooth(tr, period)
        plus_dm_smooth == WilderSmooth(plus_dm, period)
        minus_dm_smooth == WilderSmooth(minus_dm, period)
        plus_di == DI(plus_dm_smooth, atr)
        minus_di == DI(minus_dm_smooth, atr)
        dx == DX(plus_di, minus_di)
    IN  [tr |-> tr, plus_dm |-> plus_dm, minus_dm |-> minus_dm, atr |-> atr,
         plus_dm_smooth |-> plus_dm_smooth, minus_dm_smooth |-> minus_dm_smooth,
         plus_di |-> plus_di, minus_di |-> minus_di, dx |-> dx,
         adx |-> AdxSmooth(dx, period)]

TrendStrength(adx_value) ==
    IF Lt(adx_value, I(20)) THEN "no_trend"
    ELSE IF Lt(adx_value, I(25)) THEN "weak_trend"
    ELSE IF Lt(adx_value, I(50)) THEN "strong_trend"
    ELSE IF Lt(adx_value, I(75)) THEN "very_strong_trend"
    ELSE "extremely_strong_trend"

TrendDirection(plus_di, minus_di) ==
    IF Gt(plus_di, minus_di) THEN "bullish"
    ELSE IF Gt(minus_di, plus_di) THEN "bearish"
    ELSE "neutral"

\* a slip: the rising and falling ADX tested before the DI crossovers
AdxSignalTrendFirst(strength, prev_plus_di, prev_minus_di, prev_adx, plus_di, minus_di, adx_value) ==
    IF Gt(adx_value, prev_adx) /\ Gt(adx_value, I(25)) THEN "trend_strengthening"
    ELSE IF Lt(adx_value, prev_adx) /\ Gt(adx_value, I(25)) THEN "trend_weakening"
    ELSE IF Le(prev_plus_di, prev_minus_di) /\ Gt(plus_di, minus_di) THEN "bullish_crossover"
    ELSE IF Ge(prev_plus_di, prev_minus_di) /\ Lt(plus_di, minus_di) THEN "bearish_crossover"
    ELSE strength

AdxSignal(strength, prev_plus_di, prev_minus_di, prev_adx, plus_di, minus_di, adx_value) ==
    IF Le(prev_plus_di, prev_minus_di) /\ Gt(plus_di, minus_di) THEN "bullish_crossover"
    ELSE IF Ge(prev_plus_di, prev_minus_di) /\ Lt(plus_di, minus_di) THEN "bearish_crossover"
    ELSE IF Gt(adx_value, prev_adx) /\ Gt(adx_value, I(25)) THEN "trend_strengthening"
    ELSE IF Lt(adx_value, prev_adx) /\ Gt(adx_value, I(25)) THEN "trend_weakening"
    ELSE strength

\* min_required = period * 2 + 1
AdxMinRequired(period) == period * 2 + 1

calculate_adx(cs, period) ==
    IF Len(cs) < AdxMinRequired(period) THEN LengthError(AdxMinRequired(period), Len(cs))
    ELSE IF FieldCheck(cs, OHLC_FIELDS).status = "error" THEN FieldCheck(cs, OHLC_FIELDS)
    ELSE LET n == Len(cs)
             df == AdxFrame(cs, period)
             strength == TrendStrength(df.adx[n])
         IN  [status |-> "ok",
              adx |-> Round(df.adx[n], 2),
              plus_di |-> Round(df.plus_di[n], 2),
              minus_di |-> Round(df.minus_di[n], 2),
              trend_strength |-> strength,
              trend_direction |-> TrendDirection(df.plus_di[n], df.minus_di[n]),
              signal |-> AdxSignal(strength, df.plus_di[n - 1], df.minus_di[n - 1],
                                   df.adx[n - 1], df.plus_di[n], df.minus_di[n], df.adx[n]),
              period |-> period]

(* stochastic.py *)

\* df["k_percent"]
KPercent(cs, k_period) ==
    LET low_min == RollingMin(Column(cs, "low"), k_period)
        high_max == RollingMax(Column(cs, "high"), k_period)
        close == Column(cs, "close")
    IN  [i \in 1..Len(cs) |->
            Mul(I(100), Div(Sub(close[i], low_min[i]), Sub(high_max[i], low_min[i])))]

\* df["d_percent"]
DPercent(cs, k_period, d_period) == RollingMean(KPercent(cs, k_period), d_period)

\* a slip: the overbought and oversold zones tested before the crossovers
StochasticSignalZonesFirst(prev_k, prev_d, k_value, d_value, overbought, oversold) ==
    IF Gt(k_value, I(overbought)) /\ Gt(d_value, I(overbought)) THEN "overbought"
    ELSE IF Lt(k_value, I(oversold)) /\ Lt(d_value, I(oversold)) THEN "oversold"
    ELSE IF Le(prev_k, prev_d) /\ Gt(k_value, d_value)
    THEN (IF Lt(k_value, I(oversold)) THEN "bullish_crossover_oversold"
          ELSE "bullish_crossover")
    ELSE IF Ge(prev_k, prev_d) /\ Lt(k_value, d_value)
    THEN (IF Gt(k_value, I(overbought)) THEN "bearish_crossover_overbought"
          ELSE "bearish_crossover")
    ELSE IF Gt(k_value, I(overbought)) THEN "near_overbought"
    ELSE IF Lt(k_value, I(oversold)) THEN "near_oversold"
    ELSE "neutral"

StochasticSignal(prev_k, prev_d, k_value, d_value, overbought, oversold) ==
    IF Le(prev_k, prev_d) /\ Gt(k_value, d_value)
    THEN (IF Lt(k_value, I(oversold)) THEN "bullish_crossover_oversold"
          ELSE "bullish_crossover")
    ELSE IF Ge(prev_k, prev_d) /\ Lt(k_value, d_value)
    THEN (IF Gt(k_value, I(overbought)) THEN "bearish_crossover_overbought"
          ELSE "bearish_crossover")
    ELSE IF Gt(k_value, I(overbought)) /\ Gt(d_value, I(overbought)) THEN "overbought"
    ELSE IF Lt(k_value, I(oversold)) /\ Lt(d_value, I(oversold)) THEN "oversold"
    ELSE IF Gt(k_value, I(overbought)) THEN "near_overbought"
    ELSE IF Lt(k_value, I(oversold)) THEN "near_oversold"
    ELSE "neutral"

\* min_required = k_period + d_period - 1
StochasticMinRequired(k_period, d_period) == k_period + d_period - 1

calculate_stochastic(cs, k_period, d_period, overbought, oversold) ==
    IF Len(cs) < StochasticMinRequired(k_period, d_period)
    THEN LengthError(StochasticMinRequired(k_period, d_period), Len(cs))
    ELSE IF FieldCheck(cs, OHLC_FIELDS).status = "error" THEN FieldCheck(cs, OHLC_FIELDS)
    \* .iloc[-2] of a one-row column: "single positional indexer is out-of-bounds"
    ELSE IF Len(cs) < 2 THEN Raised("IndexError")
    ELSE LET n == Len(cs)
             k == KPercent(cs, k_period)
             d == DPercent(cs, k_period, d_period)
         IN  [status |-> "ok",
              k_percent |-> Round(k[n], 2),
              d_percent |-> Round(d[n], 2),
              signal |-> StochasticSignal(k[n - 1], d[n - 1], k[n], d[n],
                                          overbought, oversold),
              k_period |-> k_period, d_period |-> d_period,
              overbought |-> overbought, oversold |-> oversold]

(* historical_volatility.py, calculate_parkinson_volatility: the checks of *)
(* its input.  The figure it returns is a logarithm of high/low, which     *)
(* this arithmetic does not have; numpy computes it without raising.       *)

PARKINSON_FIELDS == <<"high", "low">>

calculate_parkinson_volatility(cs, period) ==
    IF Len(cs) < period THEN LengthError(period, Len(cs))
    ELSE IF FieldCheck(cs, PARKINSON_FIELDS).status = "error"
    THEN FieldCheck(cs, PARKINSON_FIELDS)
    ELSE [status |-> "ok", period |-> period]

----------------------------------------------------------------------------
(* pivot_points.py.  The levels dict is the sequence of its items, in      *)
(* insertion order, each a record [k |-> name, v |-> price].               *)

Item(k, v) == [k |-> k, v |-> Round(v, 2)]

\* a slip: r1 and s1 measured from the wrong side of the candle
StandardPivotsSwapped(high, low, close) ==
    LET pivot == Div(Add(Add(high, low), close), I(3))
        r1 == Sub(Mul(I(2), pivot), high)
        r2 == Add(pivot, Sub(high, low))
        r3 == Add(high, Mul(I(2), Sub(pivot, low)))
        s1 == Sub(Mul(I(2), pivot), low)
        s2 == Sub(pivot, Sub(high, low))
        s3 == Sub(low, Mul(I(2), Sub(high, pivot)))
    IN  <<Item("r3", r3), Item("r2", r2), Item("r1", r1), Item("pivot", pivot),
          Item("s1", s1), Item("s2", s2), Item("s3", s3)>>

calculate_standard_pivots(high, low, close) ==
    LET pivot == Div(Add(Add(high, low), close), I(3))
        r1 == Sub(Mul(I(2), pivot), low)
        r2 == Add(pivot, Sub(high, low))
        r3 == Add(high, Mul(I(2), Sub(pivot, low)))
        s1 == Sub(Mul(I(2), pivot), high)
        s2 == Sub(pivot, Sub(high, low))
        s3 == Sub(low, Mul(I(2), Sub(high, pivot)))
    IN  <<Item("r3", r3), Item("r2", r2), Item("r1", r1), Item("pivot", pivot),
          Item("s1", s1), Item("s2", s2), Item("s3", s3)>>

calculate_fibonacci_pivots(high, low, close) ==
    LET pivot == Div(Add(Add(high, low), close), I(3))
        range_hl == Sub(high, low)
        r1 == Add(pivot, Mul(Q(382, 1000), range_hl))
        r2 == Add(pivot, Mul(Q(618, 1000), range_hl))
        r3 == Add(pivot, Mul(I(1), range_hl))
        s1 == Sub(pivot, Mul(Q(382, 1000), range_hl))
        s2 == Sub(pivot, Mul(Q(618, 1000), range_hl))
        s3 == Sub(pivot, Mul(I(1), range_hl))
    IN  <<Item("r3", r3), Item("r2", r2), Item("r1", r1), Item("pivot", pivot),
          Item("s1", s1), Item("s2", s2), Item("s3", s3)>>

\* a slip: the Camarilla pivot taken as (high + low + close) / 3
CamarillaPivotTypical(high, low, close) ==
    LET range_hl == Sub(high, low)
        part(k) == Div(Mul(range_hl, Q(11, 10)), I(k))
    IN  <<Item("r4", Add(close, part(2))), Item("r3", Add(close, part(4))),
          Item("r2", Add(close, part(6))), Item("r1", Add(close, part(12))),
          Item("pivot", Div(Add(Add(high, low), close), I(3))),
          Item("s1", Sub(close, part(12))), Item("s2", Sub(close, part(6))),
          Item("s3", Sub(close, part(4))), Item("s4", Sub(close, part(2)))>>

calculate_camarilla_pivots(high, low, close) ==
    LET range_hl == Sub(high, low)
        part(k) == Div(Mul(range_hl, Q(11, 10)), I(k))
    IN  <<Item("r4", Add(close, part(2))), Item("r3", Add(close, part(4))),
          Item("r2", Add(close, part(6))), Item("r1", Add(close, part(12))),
          Item("pivot", close),
          Item("s1", Sub(close, part(12))), Item("s2", Sub(close, part(6))),
          Item("s3", Sub(close, part(4))), Item("s4", Sub(close, part(2)))>>

IsResistance(item) == item.k \in {"r1", "r2", "r3", "r4"}

IsSupport(item) == item.k \in {"s1", "s2", "s3", "s4"}

\* levels["pivot"]
PivotOf(levels) == (CHOOSE i \in 1..Len(levels) : levels[i].k = "pivot")

\* min(items, key=lambda x: x[1]): the first item of the least price
MinItem(items) ==
    LET i == CHOOSE i \in 1..Len(items) :
                 /\ \A j \in 1..Len(items) : Le(items[i].v, items[j].v)
                 /\ \A j \in 1..(i - 1) : Lt(items[i].v, items[j].v)
    IN  items[i]

\* max(items, key=lambda x: x[1]): the first item of the greatest price
MaxItem(items) ==
    LET i == CHOOSE i \in 1..Len(items) :
                 /\ \A j \in 1..Len(items) : Ge(items[i].v, items[j].v)
                 /\ \A j \in 1..(i - 1) : Gt(items[i].v, items[j].v)
    IN  items[i]

NoLevel == [level |-> "none", price |-> NaN]

Level(item) == [level |-> item.k, price |-> item.v]

\* the resistances and supports among which the nearest level is looked for
Resistances(levels, current_price) ==
    IF Gt(current_price, levels[PivotOf(levels)].v)
    THEN SelectSeq(levels, LAMBDA it : IsResistance(it) /\ Gt(it.v, current_price))
    ELSE SelectSeq(levels, LAMBDA it : IsResistance(it) \/ it.k = "pivot")

Supports(levels, current_price) ==
    IF Gt(current_price, levels[PivotOf(levels)].v)
    THEN SelectSeq(levels, LAMBDA it : IsSupport(it) \/ it.k = "pivot")
    ELSE SelectSeq(levels, LAMBDA it : IsSupport(it) /\ Lt(it.v, current_price))

PIVOT_FIELDS == <<"high", "low", "close">>

PivotLevels(prev_candle, pivot_type) ==
    LET high == I(prev_candle.high)
        low == I(prev_candle.low)
        close == I(prev_candle.close)
    IN  IF pivot_type = "fibonacci" THEN calculate_fibonacci_pivots(high, low, close)
        ELSE IF pivot_type = "camarilla" THEN calculate_camarilla_pivots(high, low, close)
        ELSE calculate_standard_pivots(high, low, close)

\* current_price is [some |-> FALSE] for None, else [some |-> TRUE, v |-> price]
calculate_pivot_points(prev_candle, pivot_type, current_price) ==
    IF Len(Missing(prev_candle, PIVOT_FIELDS)) > 0
    THEN MissingError(-1, Missing(prev_candle, PIVOT_FIELDS))
    ELSE LET levels == PivotLevels(prev_candle, pivot_type)
         IN  IF ~current_price.some
             THEN [status |-> "ok", type |-> pivot_type, levels |-> levels,
                   analysed |-> FALSE]
             ELSE LET price == current_price.v
                      resistances == Resistances(levels, price)
                      supports == Supports(levels, price)
                  IN  [status |-> "ok", type |-> pivot_type, levels |-> levels,
                       analysed |-> TRUE,
                       current_price |-> Round(price, 2),
                       nearest_resistance |->
                           IF Len(resistances) > 0 THEN Level(MinItem(resistances))
                           ELSE NoLevel,
                       nearest_support |->
                           IF Len(supports) > 0 THEN Level(MaxItem(supports))
                           ELSE NoLevel,
                       position |-> IF Gt(price, levels[PivotOf(levels)].v)
                                    THEN "above_pivot" ELSE "below_pivot"]

----------------------------------------------------------------------------
(* expected_move.py.  These are plain python floats: a division by zero    *)
(* raises ZeroDivisionError.  An optional argument is [some |-> FALSE]     *)
(* for None, else [some |-> TRUE, v |-> value].                            *)

None == [some |-> FALSE, v |-> NaN]

Some(x) == [some |-> TRUE, v |-> x]

\* a slip: the two option prices preferred to a straddle price given directly
StraddleLegsFirst(atm_call, atm_put, straddle_price) ==
    IF atm_call.some /\ atm_put.some THEN Some(Add(atm_call.v, atm_put.v))
    ELSE IF straddle_price.some THEN straddle_price
    ELSE None

\* the straddle of calculate_expected_move, or None when it raises ValueError
Straddle(atm_call, atm_put, straddle_price) ==
    IF straddle_price.some THEN straddle_price
    ELSE IF atm_call.some /\ atm_put.some THEN Some(Add(atm_call.v, atm_put.v))
    ELSE None

InvalidParameter ==
    [status |-> "error", type |-> "ValueError", kind |-> "parameter",
     required |-> -1, got |-> -1, index |-> -1, fields |-> NoFields]

calculate_expected_move(spot_price, atm_call, atm_put, straddle_price, multiplier) ==
    IF ~Straddle(atm_call, atm_put, straddle_price).some THEN InvalidParameter
    ELSE LET straddle == Straddle(atm_call, atm_put, straddle_price).v
             adjusted_move == Mul(straddle, multiplier)
             move_up == Add(spot_price, adjusted_move)
             move_down == Sub(spot_price, adjusted_move)
         IN  \* move_pct = (adjusted_move / spot_price) * 100
             IF spot_price = I(0) THEN Raised("ZeroDivisionError")
             ELSE [status |-> "ok",
                   spot_price |-> Round(spot_price, 2),
                   straddle_price |-> Round(straddle, 2),
                   raw |-> Round(straddle, 2),
                   adjusted |-> Round(adjusted_move, 2),
                   percentage |-> Round(Mul(Div(adjusted_move, spot_price), I(100)), 2),
                   raw_percentage |-> Round(Mul(Div(straddle, spot_price), I(100)), 2),
                   upper_1x |-> Round(move_up, 2),
                   lower_1x |-> Round(move_down, 2),
                   upper_2x |-> Round(Add(spot_price, Mul(adjusted_move, I(2))), 2),
                   lower_2x |-> Round(Sub(spot_price, Mul(adjusted_move, I(2))), 2),
                   short_call |-> Round(Add(spot_price, Mul(adjusted_move, Q(1, 2))), 1),
                   short_put |-> Round(Sub(spot_price, Mul(adjusted_move, Q(1, 2))), 1),
                   long_call |-> Round(move_up, 1),
                   long_put |-> Round(move_down, 1),
                   wide_long_call |-> Round(Add(spot_price, Mul(adjusted_move, Q(3, 2))), 1),
                   wide_long_put |-> Round(Sub(spot_price, Mul(adjusted_move, Q(3, 2))), 1),
                   stay_within_1x |-> 68, stay_within_2x |-> 95, touch_1x_boundary |-> 32,
                   multiplier_used |-> multiplier]

----------------------------------------------------------------------------
(* Bounds of the inputs explored *)

MaxLen == 4          \* longest price list
MaxPeriod == 3       \* largest period / span parameter
MaxCandles == 5      \* longest list of complete candles
MaxShort == 3        \* longest list of candles that may lack fields
MaxQuote == 4        \* largest high/low/close of a single candle
MaxInput == 7        \* longest input when only its length varies
MaxRamp == 40        \* longest steadily rising price list
MaxStart == 3        \* largest first price of such a list

PriceVals == {1, 2, 3}

Periods == 1..MaxPeriod

SeqsUpTo(S, n) == UNION {[1..k -> S] : k \in 0..n}

StdDevs == {I(0), I(1), I(2)}

Thresholds == {<<RSI_OVERBOUGHT, RSI_OVERSOLD>>, <<80, 20>>}

QuoteVals == 1..MaxQuote

Full(h, l, c, v) == [open |-> c, high |-> h, low |-> l, close |-> c, volume |-> v]

\* complete candles: a flat bar without volume, an up bar, a down bar
CompleteCandles == {Full(2, 2, 2, 0), Full(4, 2, 4, 1), Full(3, 1, 1, 2)}

\* single bars of every shape, also with high below low
Bars ==
    {[open |-> c, high |-> h, low |-> l, close |-> c, volume |-> v] :
        h \in QuoteVals, l \in QuoteVals, c \in QuoteVals, v \in 0..2}

\* candles that lack some of the keys
PartialCandles ==
    {Full(2, 1, 2, 1),
     [open |-> 1, high |-> 2, low |-> 1, close |-> 2],
     [high |-> 2, low |-> 1, close |-> 2],
     [high |-> 2, low |-> 1],
     [close |-> 2, volume |-> 1]}

PrevCandles ==
    {[high |-> h, low |-> l, close |-> c] : h \in QuoteVals, l \in QuoteVals, c \in QuoteVals}
    \cup {[high |-> 2, close |-> 1], [low |-> 1]}
    \cup {[high |-> 100, low |-> 95, close |-> 98]}

PivotTypes == {"standard", "fibonacci", "camarilla"}

\* current prices: None, and the halves from 0 to MaxQuote + 2
CurrentPrices == {None} \cup {Some(Q(k, 2)) : k \in 0..(2 * MaxQuote + 4)}

Premiums == {None, Some(I(2)), Some(I(3))}

Quotes ==
    [spot_price : {I(0), I(50), I(100)}, atm_call : Premiums, atm_put : Premiums,
     straddle_price : {None, Some(I(4)), Some(I(5))}]

Multipliers == {Q(85, 100), I(1)}

NoCall == [fn |-> "none", args |-> <<>>]
NoResult == [status |-> "none"]
NoCandle == [none |-> 0]
NoQuote == [none |-> 0]
NoKept == [call |-> NoCall]

----------------------------------------------------------------------------
(* The caller's input *)

InitPrices ==
    /\ kind = "prices"
    /\ prices \in SeqsUpTo(PriceVals, MaxLen)
    /\ candles = <<>> /\ prev_ohlc = NoCandle /\ quote = NoQuote
    /\ call = NoCall /\ result = NoResult /\ kept = NoKept

InitCandles ==
    /\ kind = "candles"
    /\ candles \in SeqsUpTo(CompleteCandles, MaxCandles)
    /\ prices = <<>> /\ prev_ohlc = NoCandle /\ quote = NoQuote
    /\ call = NoCall /\ result = NoResult /\ kept = NoKept

InitFields ==
    /\ kind = "candles"
    /\ candles \in SeqsUpTo(PartialCandles, MaxShort)
    /\ prices = <<>> /\ prev_ohlc = NoCandle /\ quote = NoQuote
    /\ call = NoCall /\ result = NoResult /\ kept = NoKept

InitPivot ==
    /\ kind = "pivot"
    /\ prev_ohlc \in PrevCandles
    /\ prices = <<>> /\ candles = <<>> /\ quote = NoQuote
    /\ call = NoCall /\ result = NoResult /\ kept = NoKept

InitMove ==
    /\ kind = "move"
    /\ quote \in Quotes
    /\ prices = <<>> /\ candles = <<>> /\ prev_ohlc = NoCandle
    /\ call = NoCall /\ result = NoResult /\ kept = NoKept

\* one candle of any shape
InitBar ==
    /\ kind = "candles"
    /\ candles \in {<<b>> : b \in Bars}
    /\ prices = <<>> /\ prev_ohlc = NoCandle /\ quote = NoQuote
    /\ call = NoCall /\ result = NoResult /\ kept = NoKept

\* candles of one range, closing at its bottom, near it, in the middle, near
\* the top and at the top, and a candle without range
InitOscillator ==
    /\ kind = "candles"
    /\ candles \in SeqsUpTo({Full(10, 0, c, 1) : c \in {0, 1, 5, 9, 10}}
                                 \cup {Full(5, 5, 5, 0)}, MaxShort)
    /\ prices = <<>> /\ prev_ohlc = NoCandle /\ quote = NoQuote
    /\ call = NoCall /\ result = NoResult /\ kept = NoKept

\* one input of each family, for callers that call more than once
InitRepeat ==
    /\ \/ /\ kind = "prices"
          /\ prices = <<1, 3, 2, 3>>
          /\ candles = <<>> /\ prev_ohlc = NoCandle /\ quote = NoQuote
       \/ /\ kind = "candles"
          /\ candles = <<Full(4, 2, 4, 1), Full(3, 1, 1, 2), Full(2, 2, 2, 0),
                         Full(4, 2, 4, 1), Full(3, 1, 1, 2)>>
          /\ prices = <<>> /\ prev_ohlc = NoCandle /\ quote = NoQuote
       \/ /\ kind = "pivot"
          /\ prev_ohlc = [high |-> 4, low |-> 2, close |-> 3]
          /\ prices = <<>> /\ candles = <<>> /\ quote = NoQuote
       \/ /\ kind = "move"
          /\ quote = [spot_price |-> I(100), atm_call |-> Some(I(2)),
                      atm_put |-> Some(I(3)), straddle_price |-> None]
          /\ prices = <<>> /\ candles = <<>> /\ prev_ohlc = NoCandle
    /\ call = NoCall /\ result = NoResult /\ kept = NoKept

\* inputs of every length up to MaxInput, all of one value
InitLengths ==
    /\ \/ /\ kind = "prices"
          /\ prices \in SeqsUpTo({2}, MaxInput)
          /\ candles = <<>>
       \/ /\ kind = "candles"
          /\ candles \in SeqsUpTo({Full(4, 2, 4, 1)}, MaxInput)
          /\ prices = <<>>
    /\ prev_ohlc = NoCandle /\ quote = NoQuote
    /\ call = NoCall /\ result = NoResult /\ kept = NoKept

\* start, start + 1, ..., start + n - 1
Ramp(start, n) == [i \in 1..n |-> start + i - 1]

\* a price list that rises by one at every step
InitRamp ==
    /\ kind = "ramp"
    /\ prices \in {Ramp(start, n) : start \in 1..MaxStart, n \in 0..MaxRamp}
    /\ candles = <<>> /\ prev_ohlc = NoCandle /\ quote = NoQuote
    /\ call = NoCall /\ result = NoResult /\ kept = NoKept

Init ==
    \/ InitPrices \/ InitCandles \/ InitFields \/ InitBar \/ InitLengths
    \/ InitRamp \/ InitPivot \/ InitMove

\* a call reads the caller's input and leaves it as it was
\* a slip: the function works on the caller's own list and drops its last
\* element
AfterCallPopped(xs) == IF Len(xs) = 0 THEN xs ELSE SubSeq(xs, 1, Len(xs) - 1)

\* The caller's list after a call.  Every function starts with
\* pd.Series(prices) or pd.DataFrame(candles), which copy the values, and
\* adds its working columns to that copy: the caller's list is as it was.
AfterCall(xs) == xs

Returns(fn, args, res) ==
    /\ call = NoCall
    /\ call' = [fn |-> fn, args |-> args]
    /\ result' = res
    /\ prices' = AfterCall(prices)
    /\ candles' = AfterCall(candles)
    /\ UNCHANGED <<kind, prev_ohlc, quote, kept>>

----------------------------------------------------------------------------
(* One action per indicator function *)

CallSMA ==
    /\ kind = "prices"
    /\ \E period \in Periods :
           Returns("calculate_sma", [period |-> period], calculate_sma(prices, period))

CallEMA ==
    /\ kind = "prices"
    /\ \E period \in Periods, smoothing \in {2, 3} :
           Returns("calculate_ema", [period |-> period, smoothing |-> smoothing],
                   calculate_ema(prices, period, smoothing))

CallRSI ==
    /\ kind = "prices"
    /\ \E period \in Periods, t \in Thresholds :
           Returns("calculate_rsi",
                   [period |-> period, overbought |-> t[1], oversold |-> t[2]],
                   calculate_rsi(prices, period, t[1], t[2]))

CallBollinger ==
    /\ kind = "prices"
    /\ \E period \in Periods, std_dev \in StdDevs :
           Returns("calculate_bollinger_bands", [period |-> period, std_dev |-> std_dev],
                   calculate_bollinger_bands(prices, period, std_dev))

CallMACD ==
    /\ kind = "prices"
    /\ \E fast \in Periods, slow \in Periods, signal \in Periods :
           Returns("calculate_macd",
                   [fast_period |-> fast, slow_period |-> slow, signal_period |-> signal],
                   calculate_macd(prices, fast, slow, signal))

\* calculate_macd(prices): fast_period=12, slow_period=26, signal_period=9
CallMACDDefault ==
    /\ kind = "ramp"
    /\ Returns("calculate_macd",
               [fast_period |-> 12, slow_period |-> 26, signal_period |-> 9],
               calculate_macd(prices, 12, 26, 9))

CallHV ==
    /\ kind = "prices"
    /\ \E period \in Periods :
           Returns("calculate_historical_volatility",
                   [period |-> period, annualize_factor |-> 252],
                   calculate_historical_volatility(prices, period, 252))

CallVWAP ==
    /\ kind = "candles"
    /\ Returns("calculate_vwap", [period |-> 0], calculate_vwap(candles))

CallATR ==
    /\ kind = "candles"
    /\ \E period \in Periods :
           Returns("calculate_atr", [period |-> period], calculate_atr(candles, period))

CallADX ==
    /\ kind = "candles"
    /\ \E period \in Periods :
           Returns("calculate_adx", [period |-> period], calculate_adx(candles, period))

CallStochastic ==
    /\ kind = "candles"
    /\ \E k_period \in Periods, d_period \in Periods :
           Returns("calculate_stochastic",
                   [k_period |-> k_period, d_period |-> d_period,
                    overbought |-> 80, oversold |-> 20],
                   calculate_stochastic(candles, k_period, d_period, 80, 20))

CallParkinson ==
    /\ kind = "candles"
    /\ \E period \in Periods :
           Returns("calculate_parkinson_volatility", [period |-> period],
                   calculate_parkinson_volatility(candles, period))

CallPivot ==
    /\ kind = "pivot"
    /\ \E pivot_type \in PivotTypes, current_price \in CurrentPrices :
           Returns("calculate_pivot_points",
                   [pivot_type |-> pivot_type, current_price |-> current_price],
                   calculate_pivot_points(prev_ohlc, pivot_type, current_price))

CallExpectedMove ==
    /\ kind = "move"
    /\ \E multiplier \in Multipliers :
           Returns("calculate_expected_move", [multiplier |-> multiplier],
                   calculate_expected_move(quote.spot_price, quote.atm_call, quote.atm_put,
                                           quote.straddle_price, multiplier))

\* The caller goes on to its next call with the same data, either keeping the
\* call just made (its parameters, its result, and the data as the call left
\* them) to compare later ones with, or not; `others` of a kept call becomes
\* TRUE once a different call has been made after it.
NextCall ==
    /\ call # NoCall
    /\ call' = NoCall /\ result' = NoResult
    /\ \/ kept' = [call |-> call, result |-> result, prices |-> prices,
                   candles |-> candles, others |-> FALSE]
       \/ /\ kept # NoKept
          /\ kept' = [kept EXCEPT !.others = @ \/ call # kept.call]
       \/ /\ kept = NoKept
          /\ kept' = kept
    /\ UNCHANGED <<kind, prices, candles, prev_ohlc, quote>>

NextPrices == CallSMA \/ CallEMA \/ CallRSI \/ CallBollinger \/ CallMACD \/ CallHV

NextCandles == CallVWAP \/ CallATR \/ CallADX \/ CallStochastic \/ CallParkinson

Next == NextPrices \/ NextCandles \/ CallMACDDefault \/ CallPivot \/ CallExpectedMove

\* every input family, every indicator
Spec == Init /\ [][Next]_vars

\* the indicators of a price list
SpecPrices == InitPrices /\ [][NextPrices]_vars

\* the indicators of a candle list, on complete candles
SpecCandles == InitCandles /\ [][NextCandles]_vars

\* the indicators of a candle list, on candles that may lack keys
SpecFields == InitFields /\ [][NextCandles]_vars

\* the indicators of a candle list, on a single candle of any shape
SpecBar == InitBar /\ [][NextCandles]_vars

\* the indicators of both kinds of list, on inputs of every length
SpecLengths == InitLengths /\ [][NextPrices \/ NextCandles]_vars

\* MACD with its default periods on steadily rising prices
SpecRamp == InitRamp /\ [][CallMACDDefault]_vars

\* the stochastic oscillator on closes spread over the range
SpecOscillator == InitOscillator /\ [][CallStochastic]_vars

\* every indicator, called again and again on the same data
SpecRepeat ==
    InitRepeat /\ [][NextPrices \/ NextCandles \/ CallPivot \/ CallExpectedMove \/ NextCall]_vars

\* the pivot script
SpecPivot == InitPivot /\ [][CallPivot]_vars

\* the expected-move script
SpecMove == InitMove /\ [][CallExpectedMove]_vars

----------------------------------------------------------------------------
(* Properties.  Each is a predicate of the state after a call: `call` says *)
(* which function ran with which parameters, `result` what it returned.    *)

InputLen == IF kind \in {"prices", "ramp"} THEN Len(prices) ELSE Len(candles)

IsLengthError == result.status = "error" /\ result.kind = "length"

IsMissingError == result.status = "error" /\ result.kind = "missing"

Called(fn) == call.fn = fn

SeriesIndicators ==
    {"calculate_sma", "calculate_ema", "calculate_bollinger_bands", "calculate_rsi",
     "calculate_historical_volatility", "calculate_macd", "calculate_atr",
     "calculate_adx", "calculate_stochastic", "calculate_parkinson_volatility",
     "calculate_vwap"}

\* the documented minimum number of data points of the call made
DocumentedMinimum ==
    CASE call.fn \in {"calculate_sma", "calculate_ema", "calculate_bollinger_bands",
                      "calculate_parkinson_volatility"} -> call.args.period
      [] call.fn \in {"calculate_rsi", "calculate_historical_volatility",
                      "calculate_atr"} -> call.args.period + 1
      [] call.fn = "calculate_macd" -> call.args.slow_period + call.args.signal_period
      [] call.fn = "calculate_adx" -> 2 * call.args.period + 1
      [] call.fn = "calculate_stochastic" -> call.args.k_period + call.args.d_period - 1
      [] call.fn = "calculate_vwap" -> 1

\* C1: every series indicator rejects an input shorter than its documented
\* minimum with the length error, whose message states that minimum, and
\* raises no length error on an input of at least that length.
C1_LengthGate ==
    call.fn \in SeriesIndicators =>
        IF InputLen < DocumentedMinimum
        THEN IsLengthError /\ result.required = DocumentedMinimum
        ELSE ~IsLengthError

\* C1 happens: ADX with period 2 or more is refused an input one short of 2*period+1
C1_Witness ==
    /\ Called("calculate_adx") /\ call.args.period >= 2
    /\ InputLen = 2 * call.args.period
    /\ IsLengthError /\ result.required = InputLen + 1

\* C2: a call that got past its validation (length, required fields,
\* parameters) never ends in an error: an error is always one of the
\* validation errors.
C2_NoErrorPastValidation ==
    result.status = "error" => result.kind \in {"length", "missing", "parameter"}

\* the required fields of the candle indicator called, as a set
RequiredFields ==
    CASE call.fn = "calculate_vwap" -> {"high", "low", "close", "volume"}
      [] call.fn = "calculate_atr" -> {"open", "high", "low", "close"}
      [] call.fn \in {"calculate_adx", "calculate_stochastic"} -> {"high", "low", "close"}
      [] call.fn = "calculate_parkinson_volatility" -> {"high", "low"}

Lacking(i) == RequiredFields \ DOMAIN candles[i]

Incomplete == {i \in 1..Len(candles) : Lacking(i) # {}}

\* C3: a candle indicator checks the count first and the fields second: too
\* few candles give the length error whatever the candles hold; otherwise a
\* candle lacking a required field gives the error that names the lowest index
\* (from 0) of such a candle and exactly the required fields it lacks; neither
\* case returns a result.
C3_ValidationOrder ==
    (kind = "candles" /\ call.fn \in SeriesIndicators) =>
        IF InputLen < DocumentedMinimum THEN IsLengthError
        ELSE IF Incomplete # {}
        THEN /\ IsMissingError
             /\ result.index + 1 \in Incomplete
             /\ \A i \in Incomplete : result.index + 1 <= i
             /\ {result.fields[j] : j \in 1..Len(result.fields)} = Lacking(result.index + 1)
             /\ Len(result.fields) = Cardinality(Lacking(result.index + 1))
        ELSE ~IsLengthError /\ ~IsMissingError

\* C3 happens: the first candle is complete, a later one lacks two fields
C3_Witness ==
    /\ kind = "candles" /\ call.fn \in SeriesIndicators
    /\ IsMissingError /\ result.index >= 1 /\ Len(result.fields) = 2
    /\ Lacking(1) = {}

Increasing(ps) == \A i \in 1..(Len(ps) - 1) : ps[i] < ps[i + 1]

Decreasing(ps) == \A i \in 1..(Len(ps) - 1) : ps[i] > ps[i + 1]

DefaultThresholds ==
    call.args.overbought = RSI_OVERBOUGHT /\ call.args.oversold = RSI_OVERSOLD

\* C4: on a strictly increasing series of at least period+1 prices
\* calculate_rsi returns rsi = 100, on a strictly decreasing one rsi = 0; with
\* the default thresholds the signals are overbought and oversold.
C4_RsiMonotone ==
    (Called("calculate_rsi") /\ Len(prices) >= call.args.period + 1) =>
        /\ Increasing(prices) =>
               /\ result.status = "ok" /\ result.rsi = I(100)
               /\ DefaultThresholds => result.signal = "overbought"
        /\ Decreasing(prices) =>
               /\ result.status = "ok" /\ result.rsi = I(0)
               /\ DefaultThresholds => result.signal = "oversold"

\* C4 happens: three rising prices, default thresholds
C4_Witness ==
    /\ Called("calculate_rsi") /\ Len(prices) = 3 /\ Increasing(prices)
    /\ call.args.period = 2 /\ DefaultThresholds
    /\ result.status = "ok" /\ result.rsi = I(100) /\ result.signal = "overbought"

\* a single candle with every VWAP field and a positive volume
SingleCandle ==
    /\ Len(candles) = 1
    /\ {"high", "low", "close", "volume"} \subseteq DOMAIN candles[1]
    /\ candles[1].volume > 0

\* (high + low + close) / 3 of the single candle
Typical == Q(candles[1].high + candles[1].low + candles[1].close, 3)

\* C5, as stated: for a single candle with positive volume calculate_vwap
\* returns the candle's typical price (high+low+close)/3 as vwap, to the two
\* decimals reported, and deviation_pct = 0, whatever high, low and close are.
C5_SingleCandleZeroDeviation ==
    (Called("calculate_vwap") /\ SingleCandle) =>
        /\ result.status = "ok"
        /\ result.vwap = Round(Typical, 2)
        /\ result.deviation_pct = I(0)

\* C5, amended: for a single candle with positive volume calculate_vwap
\* returns the candle's typical price as vwap and, as deviation_pct, the
\* distance of the close from the typical price in percent of the typical
\* price, both to two decimals; the deviation is 0 when the close is the
\* typical price.
C5_SingleCandleDeviation ==
    (Called("calculate_vwap") /\ SingleCandle) =>
        /\ result.status = "ok"
        /\ result.vwap = Round(Typical, 2)
        /\ result.deviation_pct =
               Round(Mul(Div(Sub(I(candles[1].close), Typical), Typical), I(100)), 2)
        /\ I(candles[1].close) = Typical => result.deviation_pct = I(0)

\* C5 happens: a single candle that closes away from its typical price
C5_Witness ==
    /\ Called("calculate_vwap") /\ SingleCandle
    /\ I(candles[1].close) # Typical
    /\ result.status = "ok" /\ result.deviation_pct # I(0)

\* the supports at or below the price and the resistances strictly above it
SupportPrices ==
    {result.levels[i].v : i \in {j \in 1..Len(result.levels) :
        /\ IsSupport(result.levels[j]) \/ result.levels[j].k = "pivot"
        /\ Le(result.levels[j].v, call.args.current_price.v)}}

ResistancePrices ==
    {result.levels[i].v : i \in {j \in 1..Len(result.levels) :
        /\ IsResistance(result.levels[j]) \/ result.levels[j].k = "pivot"
        /\ Gt(result.levels[j].v, call.args.current_price.v)}}

Greatest(S) == CHOOSE x \in S : \A y \in S : Le(y, x)

Smallest(S) == CHOOSE x \in S : \A y \in S : Le(x, y)

\* C6: given a current price, calculate_pivot_points reports as nearest_support
\* the greatest of the s-levels and the pivot that is at or below the price,
\* and as nearest_resistance the smallest of the r-levels and the pivot that is
\* strictly above it, whatever the pivot type and the previous candle.
C6_NearestLevels ==
    (Called("calculate_pivot_points") /\ result.status = "ok" /\ result.analysed) =>
        /\ SupportPrices # {} => result.nearest_support.price = Greatest(SupportPrices)
        /\ ResistancePrices # {} =>
               result.nearest_resistance.price = Smallest(ResistancePrices)

\* C7: percent_b is (last price - lower band) / (upper band - lower band) when
\* the bandwidth is not zero, hence 0 with the last price on the lower band and
\* 1 with it on the upper band; with a bandwidth of exactly zero percent_b is
\* 0.5 and the signal neutral.
C7_PercentB ==
    (Called("calculate_bollinger_bands") /\ result.status = "ok") =>
        LET series == ToSeries(prices)
            mean == Last(RollingMean(series, call.args.period))
            width == Mul(call.args.std_dev, Last(RollingStd(series, call.args.period)))
            upper == Add(mean, width)
            lower == Sub(mean, width)
            last == I(Last(prices))
        IN  /\ Sub(upper, lower) # I(0) =>
                   result.percent_b = Round(Div(Sub(last, lower), Sub(upper, lower)), 3)
            /\ (IsFinite(lower) /\ Sub(upper, lower) # I(0) /\ last = lower) =>
                   result.percent_b = I(0)
            /\ (IsFinite(upper) /\ Sub(upper, lower) # I(0) /\ last = upper) =>
                   result.percent_b = I(1)
            /\ Sub(upper, lower) = I(0) =>
                   result.percent_b = Q(1, 2) /\ result.signal = "neutral"

\* C7 happens: the last price sits on the lower band of a band of some width
C7_Witness ==
    /\ Called("calculate_bollinger_bands") /\ result.status = "ok"
    /\ result.bandwidth # I(0) /\ IsFinite(result.bandwidth)
    /\ result.current_price = result.lower_band
    /\ result.percent_b = I(0)

\* (1 - a)^k
RECURSIVE Decay(_, _)
Decay(a, k) == IF k = 0 THEN I(1) ELSE Mul(Sub(I(1), a), Decay(a, k - 1))

\* e_t of e_0 = x_0, e_t = a*x_t + (1-a)*e_(t-1), unrolled:
\* (1-a)^t * x_0 + the sum over i = 1..t of a * (1-a)^(t-i) * x_i
Unrolled(xs, a) ==
    LET n == Len(xs)
        terms == [i \in 1..n |->
                     IF i = 1 THEN Mul(Decay(a, n - 1), I(xs[1]))
                     ELSE Mul(Mul(a, Decay(a, n - i)), I(xs[i]))]
    IN  SumRange(terms, 1, n)

\* C8: the ema reported is the last element of e_0 = x_0,
\* e_t = a*x_t + (1-a)*e_(t-1) with a = 2/(period+1) over the whole series, to
\* two decimals: the first price for one price, a*x_1 + (1-a)*x_0 for two, and
\* no division by a sum of weights.
C8_EmaRecurrence ==
    (Called("calculate_ema") /\ result.status = "ok") =>
        LET a == Q(2, call.args.period + 1)
        IN  /\ result.ema = Round(Unrolled(prices, a), 2)
            /\ Len(prices) = 1 => result.ema = I(prices[1])
            /\ Len(prices) = 2 =>
                   result.ema = Round(Add(Mul(a, I(prices[2])),
                                          Mul(Sub(I(1), a), I(prices[1]))), 2)

\* C8 happens: three or more prices that are not all the same, a period above 1
C8_Witness ==
    /\ Called("calculate_ema") /\ result.status = "ok"
    /\ Len(prices) >= 3 /\ call.args.period >= 2
    /\ prices[1] # prices[2]
    /\ result.ema # I(prices[1])

ConstantSeries == Len(prices) >= 1 /\ \A i \in 1..Len(prices) : prices[i] = prices[1]

\* C9: on a constant series of value v at least as long as the period,
\* calculate_sma returns sma = v and calculate_ema returns ema = v.
C9_ConstantSeries ==
    /\ (Called("calculate_sma") /\ ConstantSeries /\ Len(prices) >= call.args.period) =>
           result.status = "ok" /\ result.sma = I(prices[1])
    /\ (Called("calculate_ema") /\ ConstantSeries /\ Len(prices) >= call.args.period) =>
           result.status = "ok" /\ result.ema = I(prices[1])

\* C9 happens: the EMA of three equal prices over a period of 2
C9_Witness ==
    /\ Called("calculate_ema") /\ ConstantSeries
    /\ Len(prices) = 3 /\ call.args.period = 2
    /\ result.status = "ok" /\ result.ema = I(prices[1])

\* the last two points of the MACD line, the signal line and the histogram
MacdPoints ==
    LET macd_line == MacdLine(prices, call.args.fast_period, call.args.slow_period)
        signal_line == SignalLine(prices, call.args.fast_period, call.args.slow_period,
                                  call.args.signal_period)
        n == Len(prices)
    IN  [prev_macd |-> macd_line[n - 1], prev_signal |-> signal_line[n - 1],
         prev_hist |-> Sub(macd_line[n - 1], signal_line[n - 1]),
         macd |-> macd_line[n], signal |-> signal_line[n],
         hist |-> Sub(macd_line[n], signal_line[n])]

\* C10: crossover_signal follows a fixed priority over the last two points:
\* bullish_crossover (previous MACD <= previous signal, latest MACD > latest
\* signal), else bearish_crossover (>= then <), else bullish_momentum or
\* bearish_momentum (histogram positive and above, or negative and below, its
\* previous value), else bullish or bearish by the histogram's sign; neutral
\* exactly when the latest histogram is zero.
C10_CrossoverPriority ==
    (Called("calculate_macd") /\ result.status = "ok") =>
        LET p == MacdPoints
            up_cross == Le(p.prev_macd, p.prev_signal) /\ Gt(p.macd, p.signal)
            down_cross == Ge(p.prev_macd, p.prev_signal) /\ Lt(p.macd, p.signal)
            up_momentum == Gt(p.hist, I(0)) /\ Gt(p.hist, p.prev_hist)
            down_momentum == Lt(p.hist, I(0)) /\ Lt(p.hist, p.prev_hist)
            cross == up_cross \/ down_cross
            momentum == up_momentum \/ down_momentum
            label == result.crossover_signal
        IN  /\ up_cross => label = "bullish_crossover"
            /\ (~up_cross /\ down_cross) => label = "bearish_crossover"
            /\ (~cross /\ up_momentum) => label = "bullish_momentum"
            /\ (~cross /\ ~up_momentum /\ down_momentum) => label = "bearish_momentum"
            /\ (~cross /\ ~momentum /\ Gt(p.hist, I(0))) => label = "bullish"
            /\ (~cross /\ ~momentum /\ Lt(p.hist, I(0))) => label = "bearish"
            /\ label = "neutral" <=> p.hist = I(0)

\* C10 happens: a bullish crossover, where the momentum test would pass as well
C10_Witness ==
    /\ Called("calculate_macd") /\ result.status = "ok"
    /\ result.crossover_signal = "bullish_crossover"
    /\ Gt(MacdPoints.hist, MacdPoints.prev_hist)

\* C11: on prices rising by one per step (1, 2, ..., 40 and its like), with
\* fast 12, slow 26 and signal 9, the MACD line and the histogram are above
\* zero at every index from 1 on, and calculate_macd on a prefix of 35 or more
\* prices returns a crossover_signal that is neither crossover.
C11_RampNoCrossover ==
    (kind = "ramp" /\ Called("calculate_macd") /\ Len(prices) >= 35) =>
        LET line == MacdLine(prices, 12, 26)
            signal == SignalLine(prices, 12, 26, 9)
        IN  /\ \A i \in 2..Len(prices) :
                   Gt(line[i], I(0)) /\ Gt(Sub(line[i], signal[i]), I(0))
            /\ result.status = "ok"
            /\ result.crossover_signal \notin {"bullish_crossover", "bearish_crossover"}

\* C11 happens: the whole of 1, 2, ..., 40
C11_Witness ==
    /\ kind = "ramp" /\ Called("calculate_macd")
    /\ Len(prices) = 40 /\ prices[1] = 1
    /\ result.status = "ok" /\ result.crossover_signal = "bullish"

\* the last two points of +DI, -DI and ADX of the call made
AdxPoints ==
    LET df == AdxFrame(candles, call.args.period)
        n == Len(candles)
    IN  [prev_plus_di |-> df.plus_di[n - 1], prev_minus_di |-> df.minus_di[n - 1],
         prev_adx |-> df.adx[n - 1],
         plus_di |-> df.plus_di[n], minus_di |-> df.minus_di[n], adx |-> df.adx[n]]

\* C12: the signal of calculate_adx follows a fixed priority: bullish_crossover
\* (previous +DI <= previous -DI, latest +DI > latest -DI), else
\* bearish_crossover (>= then <), whatever the ADX; else trend_strengthening or
\* trend_weakening (ADX above or below its previous value, and above 25); in
\* every other case the trend_strength label.
C12_AdxSignalPriority ==
    (Called("calculate_adx") /\ result.status = "ok") =>
        LET p == AdxPoints
            up_cross == Le(p.prev_plus_di, p.prev_minus_di) /\ Gt(p.plus_di, p.minus_di)
            down_cross == Ge(p.prev_plus_di, p.prev_minus_di) /\ Lt(p.plus_di, p.minus_di)
            rising == Gt(p.adx, p.prev_adx) /\ Gt(p.adx, I(25))
            falling == Lt(p.adx, p.prev_adx) /\ Gt(p.adx, I(25))
        IN  /\ up_cross => result.signal = "bullish_crossover"
            /\ (~up_cross /\ down_cross) => result.signal = "bearish_crossover"
            /\ (~up_cross /\ ~down_cross /\ rising) => result.signal = "trend_strengthening"
            /\ (~up_cross /\ ~down_cross /\ ~rising /\ falling) =>
                   result.signal = "trend_weakening"
            /\ (~up_cross /\ ~down_cross /\ ~rising /\ ~falling) =>
                   result.signal = result.trend_strength

\* C12 happens: a DI crossover while the ADX rises above 25
C12_Witness ==
    /\ Called("calculate_adx") /\ result.status = "ok"
    /\ result.signal \in {"bullish_crossover", "bearish_crossover"}
    /\ Gt(AdxPoints.adx, I(25)) /\ Gt(AdxPoints.adx, AdxPoints.prev_adx)

\* C13: for every accepted input the trend_strength of calculate_adx follows
\* the buckets of the computed ADX (below 20 no_trend, below 25 weak_trend,
\* below 50 strong_trend, below 75 very_strong_trend, otherwise
\* extremely_strong_trend), so extremely_strong_trend goes with an ADX of at
\* least 75 only, also when the smoothed true range or +DI plus -DI is zero.
C13_TrendStrengthBuckets ==
    (Called("calculate_adx") /\ result.status = "ok") =>
        LET adx_value == AdxPoints.adx
        IN  /\ result.trend_strength = "no_trend" <=> Lt(adx_value, I(20))
            /\ result.trend_strength = "weak_trend" <=>
                   (Ge(adx_value, I(20)) /\ Lt(adx_value, I(25)))
            /\ result.trend_strength = "strong_trend" <=>
                   (Ge(adx_value, I(25)) /\ Lt(adx_value, I(50)))
            /\ result.trend_strength = "very_strong_trend" <=>
                   (Ge(adx_value, I(50)) /\ Lt(adx_value, I(75)))
            /\ result.trend_strength = "extremely_strong_trend" <=> Ge(adx_value, I(75))

\* the last two points of %K and %D of the call made
StochasticPoints ==
    LET k == KPercent(candles, call.args.k_period)
        d == DPercent(candles, call.args.k_period, call.args.d_period)
        n == Len(candles)
    IN  [prev_k |-> k[n - 1], prev_d |-> d[n - 1], k |-> k[n], d |-> d[n]]

\* C14: the signal of calculate_stochastic follows a fixed priority: a %K/%D
\* crossover first (bullish_crossover_oversold when %K is below oversold at a
\* bullish cross, bearish_crossover_overbought when %K is above overbought at
\* a bearish cross, the plain crossover labels otherwise), then overbought or
\* oversold (both %K and %D beyond the threshold), then near_overbought or
\* near_oversold (only %K beyond it), and neutral otherwise.
C14_StochasticSignalPriority ==
    (Called("calculate_stochastic") /\ result.status = "ok") =>
        LET p == StochasticPoints
            overbought == I(call.args.overbought)
            oversold == I(call.args.oversold)
            up_cross == Le(p.prev_k, p.prev_d) /\ Gt(p.k, p.d)
            down_cross == Ge(p.prev_k, p.prev_d) /\ Lt(p.k, p.d)
            cross == up_cross \/ down_cross
            both_over == Gt(p.k, overbought) /\ Gt(p.d, overbought)
            both_under == Lt(p.k, oversold) /\ Lt(p.d, oversold)
            zone == both_over \/ both_under
            near == Gt(p.k, overbought) \/ Lt(p.k, oversold)
        IN  /\ (up_cross /\ Lt(p.k, oversold)) =>
                   result.signal = "bullish_crossover_oversold"
            /\ (up_cross /\ ~Lt(p.k, oversold)) => result.signal = "bullish_crossover"
            /\ (~up_cross /\ down_cross /\ Gt(p.k, overbought)) =>
                   result.signal = "bearish_crossover_overbought"
            /\ (~up_cross /\ down_cross /\ ~Gt(p.k, overbought)) =>
                   result.signal = "bearish_crossover"
            /\ (~cross /\ both_over) => result.signal = "overbought"
            /\ (~cross /\ ~both_over /\ both_under) => result.signal = "oversold"
            /\ (~cross /\ ~zone /\ Gt(p.k, overbought)) => result.signal = "near_overbought"
            /\ (~cross /\ ~zone /\ ~Gt(p.k, overbought) /\ Lt(p.k, oversold)) =>
                   result.signal = "near_oversold"
            /\ (~cross /\ ~zone /\ ~near) => result.signal = "neutral"

\* C14 happens: a bullish crossover reported while %K and %D are both above
\* the overbought threshold
C14_Witness ==
    /\ Called("calculate_stochastic") /\ result.status = "ok"
    /\ result.signal = "bullish_crossover"
    /\ Gt(StochasticPoints.k, I(call.args.overbought))
    /\ Gt(StochasticPoints.d, I(call.args.overbought))

\* the true range of candle t against the close before it; the first candle
\* has none
StatedTrueRange(cs) ==
    [t \in 1..Len(cs) |->
        IF t = 1 THEN NaN
        ELSE LET a == Sub(I(cs[t].high), I(cs[t].low))
                 b == FAbs(Sub(I(cs[t].high), I(cs[t - 1].close)))
                 c == FAbs(Sub(I(cs[t].low), I(cs[t - 1].close)))
                 ab == IF Ge(a, b) THEN a ELSE b
             IN  IF Ge(ab, c) THEN ab ELSE c]

\* the mean of the stated true range over the last `period` candles
StatedAtr(cs, period) ==
    Div(SumRange(StatedTrueRange(cs), Len(cs) - period + 1, Len(cs)), I(period))

\* C15: calculate_atr returns the arithmetic mean of the true range over the
\* last `period` candles, the true range max(high - low, |high - previous
\* close|, |low - previous close|) existing from the second candle on, so the
\* first candle's own range never enters the mean; half_atr and double_atr
\* are 0.5 and 2 times the unrounded ATR.
C15_AtrMean ==
    (Called("calculate_atr") /\ result.status = "ok") =>
        LET atr_value == StatedAtr(candles, call.args.period)
        IN  /\ IsFinite(atr_value)
            /\ result.atr = Round(atr_value, 2)
            /\ result.half_atr = Round(Mul(Q(1, 2), atr_value), 2)
            /\ result.double_atr = Round(Mul(I(2), atr_value), 2)

\* C15 happens: the shortest input allowed, the first candle's range differing
\* from the mean, and a half that differs from the half of the rounded ATR
C15_Witness ==
    /\ Called("calculate_atr") /\ result.status = "ok"
    /\ Len(candles) = call.args.period + 1
    /\ Ne(I(candles[1].high - candles[1].low), StatedAtr(candles, call.args.period))
    /\ result.half_atr # Round(Mul(Q(1, 2), result.atr), 2)

\* C16: calculate_expected_move fails with the invalid-parameter error exactly
\* when straddle_price is absent and at least one of atm_call and atm_put is
\* absent; a straddle_price given is the straddle even when both option prices
\* are given too, otherwise the straddle is atm_call + atm_put; the adjusted
\* move is the straddle times the multiplier.
C16_StraddleChoice ==
    Called("calculate_expected_move") =>
        LET lacking == ~quote.straddle_price.some
                       /\ (~quote.atm_call.some \/ ~quote.atm_put.some)
            straddle == IF quote.straddle_price.some THEN quote.straddle_price.v
                        ELSE Add(quote.atm_call.v, quote.atm_put.v)
        IN  /\ result = InvalidParameter <=> lacking
            /\ result.status = "ok" =>
                   /\ result.straddle_price = Round(straddle, 2)
                   /\ result.adjusted = Round(Mul(straddle, call.args.multiplier), 2)

\* C16 happens: all three prices given, the straddle price differing from the
\* sum of the two option prices
C16_Witness ==
    /\ Called("calculate_expected_move") /\ result.status = "ok"
    /\ quote.straddle_price.some /\ quote.atm_call.some /\ quote.atm_put.some
    /\ Ne(quote.straddle_price.v, Add(quote.atm_call.v, quote.atm_put.v))
    /\ call.args.multiplier # I(1)

\* the price reported for the level named k
Reported(k) == result.levels[CHOOSE i \in 1..Len(result.levels) : result.levels[i].k = k].v

\* C17: the standard pivots are pivot = (high + low + close) / 3,
\* r1 = 2 pivot - low, s1 = 2 pivot - high, r2 = pivot + (high - low),
\* s2 = pivot - (high - low), r3 = high + 2 (pivot - low) and
\* s3 = low - 2 (high - pivot), each rounded to 2 decimals; for high 100,
\* low 95, close 98 the pivot is 97.67, r1 100.33 and s1 95.33.
C17_StandardPivots ==
    (Called("calculate_pivot_points") /\ result.status = "ok"
        /\ call.args.pivot_type = "standard") =>
        LET high == I(prev_ohlc.high)
            low == I(prev_ohlc.low)
            close == I(prev_ohlc.close)
            pivot == Div(Add(high, Add(low, close)), I(3))
            two_pivot == Add(pivot, pivot)
        IN  /\ Reported("pivot") = Round(pivot, 2)
            /\ Reported("r1") = Round(Sub(two_pivot, low), 2)
            /\ Reported("s1") = Round(Sub(two_pivot, high), 2)
            /\ Reported("r2") = Round(Add(pivot, Sub(high, low)), 2)
            /\ Reported("s2") = Round(Sub(pivot, Sub(high, low)), 2)
            /\ Reported("r3") = Round(Add(high, Mul(I(2), Sub(pivot, low))), 2)
            /\ Reported("s3") = Round(Sub(low, Mul(I(2), Sub(high, pivot))), 2)
            /\ Len(result.levels) = 7
            /\ prev_ohlc = [high |-> 100, low |-> 95, close |-> 98] =>
                   /\ Reported("pivot") = Q(9767, 100)
                   /\ Reported("r1") = Q(10033, 100)
                   /\ Reported("s1") = Q(9533, 100)

\* C17 happens: the standard pivots of the candle 100 / 95 / 98
C17_Witness ==
    /\ Called("calculate_pivot_points") /\ result.status = "ok"
    /\ call.args.pivot_type = "standard"
    /\ prev_ohlc = [high |-> 100, low |-> 95, close |-> 98]
    /\ Reported("r1") = Q(10033, 100)

WilderStated(raw, smoothed, period) ==
    /\ smoothed[period] = Div(SumRange(raw, 1, period), I(period))
    /\ \A m \in (period + 1)..Len(raw) :
           smoothed[m] = Div(Add(Mul(smoothed[m - 1], I(period - 1)), raw[m]), I(period))

\* C19: in calculate_adx the smoothed TR, +DM and -DM at index period - 1 are
\* the simple mean of the raw values at indices 0..period - 1, and at every
\* later index i >= period the smoothed value is
\* (smoothed[i - 1] * (period - 1) + raw[i]) / period.
C19_WilderSmoothing ==
    (Called("calculate_adx") /\ result.status = "ok") =>
        LET df == AdxFrame(candles, call.args.period)
        IN  /\ WilderStated(df.tr, df.atr, call.args.period)
            /\ WilderStated(df.plus_dm, df.plus_dm_smooth, call.args.period)
            /\ WilderStated(df.minus_dm, df.minus_dm_smooth, call.args.period)

\* C20: in calculate_adx the ADX is the simple mean of DX over the preceding
\* `period` indices up to index 2 period - 1, and
\* (ADX[i - 1] * (period - 1) + DX[i]) / period at every index i >= 2 period;
\* at the shortest input, 2 period + 1 candles, the reported adx is
\* (mean(DX[period..2 period - 1]) * (period - 1) + DX[2 period]) / period
\* and the previous ADX, used for the rising/falling test, is defined.
C20_AdxSeries ==
    (Called("calculate_adx") /\ result.status = "ok") =>
        LET period == call.args.period
            df == AdxFrame(candles, period)
            n == Len(candles)
            mean(lo, hi) == Div(SumRange(df.dx, lo, hi), I(period))
        IN  /\ \A m \in (2 * period - 1)..(2 * period) :
                   df.adx[m] = mean(m - period + 1, m)
            /\ \A m \in (2 * period + 1)..n :
                   df.adx[m] = Div(Add(Mul(df.adx[m - 1], I(period - 1)), df.dx[m]),
                                   I(period))
            /\ n = 2 * period + 1 =>
                   /\ result.adx =
                          Round(Div(Add(Mul(mean(period + 1, 2 * period), I(period - 1)),
                                        df.dx[n]), I(period)), 2)
                   /\ IsFinite(df.adx[n - 1])

\* every window of k_period candles of the call made has a range: its highest
\* high is above its lowest low
WindowsHaveRange ==
    LET low_min == RollingMin(Column(candles, "low"), call.args.k_period)
        high_max == RollingMax(Column(candles, "high"), call.args.k_period)
    IN  \A m \in call.args.k_period..Len(candles) : Gt(high_max[m], low_min[m])

\* C21: for every input that calculate_stochastic accepts (at least
\* k_period + d_period - 1 candles, all fields present, a non-zero high-low
\* range in each window) the latest and the previous %K and %D, which the
\* crossover test compares, are all defined, so a crossover of %K and %D
\* between the last two candles is always reported.
C21_CrossoverInputsDefined ==
    (Called("calculate_stochastic") /\ result.status = "ok" /\ WindowsHaveRange) =>
        LET p == StochasticPoints
        IN  /\ IsFinite(p.k) /\ IsFinite(p.d)
            /\ IsFinite(p.prev_k) /\ IsFinite(p.prev_d)

\* the values of the smoothing argument compared
Smoothings == {1, 2, 3}

CloseWithinRange ==
    /\ prev_ohlc.low <= prev_ohlc.close
    /\ prev_ohlc.close <= prev_ohlc.high

\* C23: for a previous candle with low <= close <= high each of the three
\* pivot variants returns ordered levels, s3 <= s2 <= s1 <= pivot <= r1 <= r2
\* <= r3, and for Camarilla also s4 <= s3 and r3 <= r4, as rounded to two
\* decimals.
C23_LevelsOrdered ==
    (Called("calculate_pivot_points") /\ result.status = "ok" /\ CloseWithinRange) =>
        /\ Le(Reported("s3"), Reported("s2")) /\ Le(Reported("s2"), Reported("s1"))
        /\ Le(Reported("s1"), Reported("pivot")) /\ Le(Reported("pivot"), Reported("r1"))
        /\ Le(Reported("r1"), Reported("r2")) /\ Le(Reported("r2"), Reported("r3"))
        /\ call.args.pivot_type = "camarilla" =>
               /\ Le(Reported("s4"), Reported("s3"))
               /\ Le(Reported("r3"), Reported("r4"))

\* C23 happens: Camarilla levels of a candle closing at its low, with the pivot
\* below r1 and r3 below r4
C23_Witness ==
    /\ Called("calculate_pivot_points") /\ result.status = "ok"
    /\ call.args.pivot_type = "camarilla"
    /\ prev_ohlc.low = prev_ohlc.close /\ prev_ohlc.close < prev_ohlc.high
    /\ Lt(Reported("pivot"), Reported("r1")) /\ Lt(Reported("r3"), Reported("r4"))

\* x lies in the closed range 0..100
WithinPercent(x) == Ge(x, I(0)) /\ Le(x, I(100))

\* C24: in calculate_adx, for candles with high >= low, +DM and -DM are not
\* negative at any index and never both non-zero at one index (both are 0 when
\* the up-move equals the down-move), and wherever the smoothed true range
\* and +DI plus -DI are positive, DX and ADX lie in the closed range 0..100.
C24_DirectionalRanges ==
    (Called("calculate_adx") /\ result.status = "ok"
        /\ \A i \in 1..Len(candles) : candles[i].high >= candles[i].low) =>
        LET df == AdxFrame(candles, call.args.period)
        IN  \A m \in 1..Len(candles) :
                /\ Ge(df.plus_dm[m], I(0)) /\ Ge(df.minus_dm[m], I(0))
                /\ df.plus_dm[m] = I(0) \/ df.minus_dm[m] = I(0)
                /\ (m > 1 /\ candles[m].high - candles[m - 1].high
                                = candles[m - 1].low - candles[m].low) =>
                       (df.plus_dm[m] = I(0) /\ df.minus_dm[m] = I(0))
                /\ (Gt(df.atr[m], I(0)) /\ Gt(Add(df.plus_di[m], df.minus_di[m]), I(0))) =>
                       /\ WithinPercent(df.dx[m])
                       /\ (m >= 2 * call.args.period - 1 => WithinPercent(df.adx[m]))

\* the rolling-std history of the call made and its latest value
VolHistory == DropNa(HvRollingStd(prices, call.args.period))

LatestVol == Last(HvRollingStd(prices, call.args.period))

\* C25: calculate_historical_volatility reports percentile_rank = 100 * (the
\* number of history values strictly less than the latest value) / (the size
\* of the history), so it is at least 0 and below 100, and 0 when exactly
\* period + 1 prices are given; and min_vol <= annualized_vol <= max_vol and
\* min_vol <= mean_vol <= max_vol.
C25_PercentileRank ==
    (Called("calculate_historical_volatility") /\ result.status = "ok") =>
        LET below == Cardinality({i \in 1..Len(VolHistory) : Lt(VolHistory[i], LatestVol)})
        IN  /\ result.percentile_rank = Round(Div(I(100 * below), I(Len(VolHistory))), 1)
            /\ Ge(result.percentile_rank, I(0)) /\ Lt(result.percentile_rank, I(100))
            /\ Len(prices) = call.args.period + 1 => result.percentile_rank = I(0)
            /\ Le(result.min_vol, result.annualized_vol)
            /\ Le(result.annualized_vol, result.max_vol)
            /\ Le(result.min_vol, result.mean_vol)
            /\ Le(result.mean_vol, result.max_vol)

====
